---- MODULE Spec2Model ----
(***************************************************************************)
(* Job abstraction of automationcloud/robot: the shared Job base class     *)
(* (event bus, waitForOutputs), the cloud driver (CloudJob: event-log      *)
(* poller) and the local driver (LocalJob + LocalFlowService: engine       *)
(* callbacks).  Listeners run synchronously inside emit (eventemitter3),   *)
(* so every action below carries the whole handler, including the          *)
(* listeners it triggers.                                                  *)
(***************************************************************************)
EXTENDS Integers, Sequences, FiniteSets, TLC

\* ---------------------------------------------------------------- bounds
MaxLog == 3        \* remote events appended to the event log
MaxWaiters == 1    \* waitForOutputs calls
MaxConcurrent == 1 \* further waitForOutputs calls made while one is pending
MaxCompl == 1      \* waitForCompletion calls
MaxKeys == 2       \* length of a requested key list
MaxSteps == 3      \* engine callbacks (tick, output, input request) in a run
MaxInputs == 1     \* submitInput calls
MaxRuns == 1       \* run() calls that start a run
MaxHandlers == 2   \* registrations through the on... methods
MaxInputHandlers == 1  \* of them, through onAwaitingInput
MaxCalls == 2      \* calls of start and trackExisting
MaxCancels == 1    \* cancel requests sent to the service

Keys == {"a", "b"}
Data == {1, 2}
NoData == 0

JobStates == {"created", "scheduled", "processing", "awaitingInput",
              "awaitingTds", "pending", "success", "fail"}
Terminal == {"success", "fail"}

VARIABLES
    driver,            \* "local" (LocalJob) or "cloud" (CloudJob)
    raised,            \* the exception last thrown by start, trackExisting or jobId, and the
                       \* number of start and trackExisting calls made
    ended,             \* how the first tracking loop or run ended, and the calls made before
    posting,           \* the last CloudJob.submitInput call and its POST request
    got,               \* the last getOutput call: its key and how its promise settled
    state,             \* Job._state
    error,             \* Job._error: "null" or the error code
    errorDetails,      \* Job._error: its category, message and details.key
    waiters,           \* waitForOutputs calls: promise and its three listeners
    wfc,               \* waitForCompletion calls
    emitted,           \* notifications the last step published, each with what a listener observes
    published,         \* terminal notifications published so far
    reached,           \* terminal states getState() has returned so far
    \* CloudJob
    jobId,             \* _jobId
    awaitingInputKey,  \* awaitingInputKey
    inputsMap,         \* inputsMap
    outputsMap,        \* outputsMap
    trackPromise,      \* _trackPromise: "null", "pending" or "rejected"
    trackError,        \* name of the exception _track threw
    trk,               \* position of the _track loop
    batch,             \* events of the current poll not yet processed
    jobEventOffset,    \* _jobEventOffset
    loops,             \* _track() invocations that have not returned or thrown
    processed,         \* ids of the remote events _processJobEvent was called with, in call order
    \* Automation Cloud service
    remoteExists, remoteState, remoteError, remoteOutputs, remoteLog,
    remoteInputs,      \* inputs stored by the service
    remoteAwaitingKey, \* job.awaitingInputKey held by the service
    remoteCancels,     \* POST /jobs/:id/cancel requests the service has received
    \* LocalJob / LocalFlowService / engine
    inputs,            \* LocalFlowService.inputs
    outputs,           \* LocalFlowService.outputs
    script,            \* LocalJob.script: "null", "loaded" or "paused"
    awaitingInputKeys, \* LocalFlowService.awaitingInputKeys
    runPromise,        \* _runPromise: "null", "pending" or "rejected"
    runError,          \* name of the exception _run threw
    pcRun,             \* position of _run / script playback
    request,           \* pending requestInputData promise: "none" or its key
    inputRequest,      \* the last requestInputData call: its promise, listeners and timer
    scriptError,       \* script.$playback.error: its name
    errorKey,          \* script.$playback.error: its details.key
    steps, runs, submits,
    \* listeners registered through the on... methods
    handlers,          \* one record per registration, with the arguments fn was invoked with
    pendingInputs,     \* awaitingInput handlers whose fn has settled and that have yet to call submitInput
    failures           \* handler failures: unhandled promise rejections, error notifications

cloudVars == <<jobId, awaitingInputKey, inputsMap, outputsMap, trackPromise,
               trackError, trk, batch, jobEventOffset, loops, processed>>
remoteVars == <<remoteExists, remoteCancels, remoteState, remoteError, remoteOutputs, remoteLog,
                remoteInputs, remoteAwaitingKey>>
localVars == <<inputs, outputs, script, awaitingInputKeys, runPromise, runError, pcRun,
               request, inputRequest, scriptError, errorKey, steps, runs, submits>>
jobVars == <<state, error, errorDetails, waiters, wfc, emitted, published, reached>>
jobFrame == <<state, error, errorDetails, waiters, wfc, published, reached>>
handlerVars == <<handlers, pendingInputs, failures>>
vars == <<driver, raised, ended, posting, got, jobVars, cloudVars, remoteVars, localVars, handlerVars>>

\* ------------------------------------------------------- output cache
\* LocalFlowService.outputs.find(o => o.key === key)
FindOutput(outs, key) ==
    LET idx == {i \in DOMAIN outs : outs[i].key = key}
    IN IF idx = {} THEN NoData
       ELSE outs[CHOOSE i \in idx : \A j \in idx : i <= j].data

\* LocalFlowService.inputs.find(_ => _.key === key)
FindInput(ins, key) ==
    LET idx == {i \in DOMAIN ins : ins[i].key = key}
    IN IF idx = {} THEN NoData
       ELSE ins[CHOOSE i \in idx : \A j \in idx : i <= j].data

\* The output cache as a lookup key -> data (NoData when absent), per driver.
Cache(drv, outs, omap) ==
    [k \in Keys |-> IF drv = "local" THEN FindOutput(outs, k) ELSE omap[k]]

CachedKeys(cache) == {k \in Keys : cache[k] # NoData}

RECURSIVE CollectValues(_, _)
\* the for loop of _checkOutputs: push data until the first missing key
CollectValues(keys, cache) ==
    IF keys = <<>> THEN <<>>
    ELSE IF cache[Head(keys)] # NoData
         THEN <<cache[Head(keys)]>> \o CollectValues(Tail(keys), cache)
         ELSE <<>>

RECURSIVE Reverse(_)
Reverse(seq) == IF seq = <<>> THEN <<>> ELSE Append(Reverse(Tail(seq)), Head(seq))

\* checkOutputs with the values collected by unshift instead of push
checkOutputsReversed(keys, cache) ==
    LET values == CollectValues(keys, cache)
    IN [found |-> Len(values) = Len(keys),
        values |-> IF Len(values) = Len(keys) THEN Reverse(values) ELSE <<>>]

\* CloudJob._checkOutputs / LocalJob._checkOutputs: the values or null
checkOutputs(keys, cache) ==
    LET values == CollectValues(keys, cache)
    IN [found |-> Len(values) = Len(keys),
        values |-> IF Len(values) = Len(keys) THEN values ELSE <<>>]

\* ------------------------------------------------------- event bus
\* One published notification together with what a listener reading the job
\* synchronously inside its handler observes.
Emission(ev, key, newState, prevState, st, err, aik, has) ==
    [ev |-> ev, key |-> key, newState |-> newState, prevState |-> prevState,
     st |-> st, err |-> err, aik |-> aik, has |-> has]

\* ------------------------------------------------------- errors
\* this._error?.code ?? 'UnknownError'
normalizeError(payload) == IF payload = "null" THEN "UnknownError" ELSE payload

\* the spread written last-first: { ...error, category: 'server', code: 'UnknownError', ... }
jobErrorDefaultsLast(payload) ==
    [category |-> "server", code |-> "UnknownError", message |-> "Unknown error",
     key |-> IF payload.key = "absent" THEN "none" ELSE payload.key]

\* this._error = { category: 'server', code: 'UnknownError', message: 'Unknown error', ...error }
jobError(payload) ==
    [category |-> IF payload.category = "absent" THEN "server" ELSE payload.category,
     code |-> IF payload.code = "absent" THEN "UnknownError" ELSE payload.code,
     message |-> IF payload.message = "absent" THEN "Unknown error" ELSE payload.message,
     key |-> IF payload.key = "absent" THEN "none" ELSE payload.key]

\* Job._error apart from its code
Details(err) == [category |-> err.category, message |-> err.message, key |-> err.key]
NoDetails == [category |-> "null", message |-> "null", key |-> "none"]

\* new Exception({ name, message, details: { category, ...details } })
Exception(name, category, key) == [name |-> name, category |-> category, key |-> key]

\* the exception _track throws in state fail: name: this._error?.code ?? 'UnknownError',
\* details: { category: this._error?.category ?? 'server', ...this._error?.details ?? {} }
trackException(code, details) ==
    Exception(normalizeError(code),
              IF details.category = "null" THEN "server" ELSE details.category,
              details.key)

\* a fail notification: the exception is its argument
FailEmission(exc, st, err, aik, has) ==
    Emission("fail", exc.name, "none", "none", st, err, aik, has)
       @@ [category |-> exc.category, detailsKey |-> exc.key]

\* the exception the rejected _trackPromise holds: that of the failed request, or
\* the one thrown in state fail (_error is not written once the loop has ended)
thrown(name, code, details) ==
    IF name = "RequestFailed" THEN Exception(name, "none", "none")
    ELSE trackException(code, details)

\* the outcome of the first _track loop or _run that ends is the job's end
firstEnd(e, status, name, calls) ==
    IF e.status = "none" THEN [status |-> status, name |-> name, calls |-> Len(calls)] ELSE e

\* ------------------------------------------------------- waitForOutputs
Pending(w) == w.status = "pending"

\* cleanup(): the three off() calls
cleanup(subs) == subs \ {"output", "success", "fail"}

\* onOutput listener of one waitForOutputs call
onOutput(w, cache) ==
    LET r == checkOutputs(w.keys, cache)
    IN IF r.found
       THEN [w EXCEPT !.subs = cleanup(@), !.status = "resolved",
                      !.values = r.values, !.settled = @ + 1]
       ELSE w

\* reject(new Exception({ name, details: { keys } })) after cleanup()
rejectMissing(w, name) ==
    [w EXCEPT !.subs = cleanup(@), !.status = "rejected", !.name = name,
              !.details = w.keys, !.settled = @ + 1]

\* onSuccess rejecting with the name of the other branch
onSuccessAsFail(w) == rejectMissing(w, "JobFailMissingOutputs")

\* onSuccess listener of one waitForOutputs call
onSuccess(w) == rejectMissing(w, "JobSuccessMissingOutputs")

\* onFail listener of one waitForOutputs call
onFail(w) == rejectMissing(w, "JobFailMissingOutputs")

\* emit(ev) as a queue would deliver it: to the first registered listener only
DeliverToFirst(ws, ev, cache) ==
    [i \in DOMAIN ws |->
        LET w == [ws[i] EXCEPT !.sawTerminal = @ \/ ev \in Terminal]
        IN IF ev \notin w.subs \/ \E j \in 1..(i - 1) : ev \in ws[j].subs THEN w
           ELSE IF ev = "output" THEN onOutput(w, cache)
           ELSE IF ev = "success" THEN onSuccess(w)
           ELSE onFail(w)]

\* emit(ev) as seen by the waitForOutputs listeners registered for ev
Deliver(ws, ev, cache) ==
    [i \in DOMAIN ws |->
        LET w == [ws[i] EXCEPT !.sawTerminal = @ \/ ev \in Terminal]
        IN IF ev \notin w.subs THEN w
           ELSE IF ev = "output" THEN onOutput(w, cache)
           ELSE IF ev = "success" THEN onSuccess(w)
           ELSE onFail(w)]

KeyLists == UNION {[1..n -> Keys] : n \in 1..MaxKeys}

\* the promise and listeners of a new waitForOutputs call
NewWaiter(keys, cache, pub) ==
    [keys |-> keys, subs |-> {"output", "success", "fail"},
     status |-> "pending", name |-> "none", values |-> <<>>,
     details |-> <<>>, settled |-> 0,
     sawTerminal |-> FALSE,
     lateCall |-> pub # {},
     cachedAtCall |-> \A i \in DOMAIN keys : keys[i] \in CachedKeys(cache)]

\* waitForOutputs without the immediate onOutput() call
waitForOutputsNoCheck(ws, keys, cache, pub) ==
    Append(ws, NewWaiter(keys, cache, pub))

\* Job.waitForOutputs(...keys): register the three listeners, then onOutput()
waitForOutputs(ws, keys, cache, pub) ==
    Append(ws, onOutput(NewWaiter(keys, cache, pub), cache))

CurCache == Cache(driver, outputs, outputsMap)

WaitForOutputs ==
    /\ Len(waiters) < MaxWaiters
    /\ \E keys \in KeyLists :
          waiters' = waitForOutputs(waiters, keys, CurCache, published)
    /\ emitted' = <<>>
    /\ UNCHANGED <<driver, raised, ended, posting, got, state, error, errorDetails, wfc, published, reached, cloudVars, remoteVars, localVars,
                   handlerVars>>

\* a second caller calls waitForOutputs while an earlier call is pending
WaitForOutputsConcurrently ==
    /\ Len(waiters) >= MaxWaiters
    /\ Len(waiters) < MaxWaiters + MaxConcurrent
    /\ \E i \in DOMAIN waiters : Pending(waiters[i])
    /\ \E keys \in KeyLists :
          waiters' = waitForOutputs(waiters, keys, CurCache, published)
    /\ emitted' = <<>>
    /\ UNCHANGED <<driver, raised, ended, posting, got, state, error, errorDetails, wfc, published, reached, cloudVars, remoteVars, localVars,
                   handlerVars>>

\* ------------------------------------------------------- waitForCompletion
\* the promise awaited by waitForCompletion settles
SettleCompletions(calls, status, name, key, category, st, pub, rch) ==
    [i \in DOMAIN calls |->
        IF calls[i].status = "pending"
        THEN [status |-> status, name |-> name, key |-> key, category |-> category,
              stAt |-> st, pubAt |-> pub, reachedAt |-> rch]
        ELSE calls[i]]

\* CloudJob.waitForCompletion / LocalJob.waitForCompletion: await the promise
waitForCompletion(calls, promise, err, key, category, st, pub, rch) ==
    LET call == [status |-> "pending", name |-> "none", key |-> "none", category |-> "none",
                 stAt |-> st, pubAt |-> pub, reachedAt |-> rch]
    IN Append(calls,
           IF promise = "null" THEN [call EXCEPT !.status = "resolved"]
           ELSE IF promise = "rejected"
           THEN [call EXCEPT !.status = "rejected", !.name = err, !.key = key,
                             !.category = category]
           ELSE call)

WaitForCompletion ==
    /\ Len(wfc) < MaxCompl
    /\ wfc' = IF driver = "cloud"
              THEN waitForCompletion(wfc, trackPromise, trackError,
                                     thrown(trackError, error, errorDetails).key,
                                     thrown(trackError, error, errorDetails).category,
                                     state, published, reached)
              ELSE waitForCompletion(wfc, runPromise, runError, errorKey, "none", state,
                                     published, reached)
    /\ emitted' = <<>>
    /\ UNCHANGED <<driver, raised, ended, posting, got, state, error, errorDetails, waiters, published, reached, cloudVars, remoteVars,
                   localVars, handlerVars>>

\* ------------------------------------------------------- event handlers
\* keys an input can be submitted under: the requested keys, the keys a wildcard
\* handler derives from them, and the registration key of a wildcard handler
DerivedKey == [k \in Keys |-> IF k = "a" THEN "selectedA" ELSE "selectedB"]
DerivedData == [k \in Keys |-> IF k = "a" THEN 1 ELSE 2]
InputKeys == Keys \cup {DerivedKey[k] : k \in Keys} \cup {"*"}

\* the callback of a registration: it returns ret (NoData is undefined), throws
\* or rejects, or submits the input derived from its argument and returns undefined
Callbacks == {[fn |-> "returns", ret |-> NoData], [fn |-> "returns", ret |-> 2],
              [fn |-> "throws", ret |-> NoData], [fn |-> "submits", ret |-> NoData]}
Plain == {c \in Callbacks : c.fn # "submits" /\ c.ret = NoData}

\* the wrapper calling fn whatever key was requested or emitted
fnArgumentAny(h, e) ==
    IF e.ev # h.event THEN "skip"
    ELSE IF h.event \in {"awaitingInput", "output"} THEN e.key
    ELSE IF h.event = "stateChanged" THEN e.newState
    ELSE IF h.event = "fail" THEN e.key
    ELSE e.ev

\* the argument the wrapper of a registration passes to fn for one notification,
\* "skip" when it does not call fn
fnArgument(h, e) ==
    IF e.ev # h.event THEN "skip"
    ELSE IF h.event \in {"awaitingInput", "output"}
         THEN IF h.key = "*" \/ e.key = h.key THEN e.key ELSE "skip"
    ELSE IF h.event = "stateChanged" THEN e.newState
    ELSE IF h.event = "fail" THEN e.key
    ELSE e.ev

\* fn of a stateChanged registration that calls job.submitInput(key, data) at once
\* when the new state is awaitingInput
SubmitsNow(h, e) ==
    h.fn = "submitsNow" /\ e.ev = "stateChanged" /\ e.newState = "awaitingInput"

\* a listener that is dropped after its first invocation
invokeOnce(h, e) ==
    IF h.active /\ h.calls = <<>> /\ fnArgument(h, e) # "skip"
    THEN [h EXCEPT !.calls = Append(@, fnArgument(h, e))]
    ELSE h

\* the listener of one registration receives one notification
invoke(h, e) ==
    IF h.active /\ fnArgument(h, e) # "skip"
    THEN [h EXCEPT !.calls = Append(@, fnArgument(h, e)),
                   !.submitted = IF SubmitsNow(h, e) THEN @ + 1 ELSE @]
    ELSE h

RECURSIVE InvokeAll(_, _)
\* emit, for each notification in publication order: every registered listener runs
InvokeAll(hs, ems) ==
    IF ems = <<>> THEN hs
    ELSE InvokeAll([i \in DOMAIN hs |-> invoke(hs[i], Head(ems))], Tail(ems))

\* the arguments of the invocations a step added to registration i
NewCalls(hs, hs2, i) == SubSeq(hs2[i].calls, Len(hs[i].calls) + 1, Len(hs2[i].calls))

\* onAwaitingInput: the submitInput call that follows one invocation of fn(r)
submission(h, i, r) ==
    IF h.fn = "submits"
    THEN [h |-> i, key |-> DerivedKey[r], data |-> DerivedData[r]]
    ELSE [h |-> i, key |-> h.key, data |-> h.ret]

Submits(h) ==
    h.event = "awaitingInput" /\ (h.fn = "submits" \/ (h.fn = "returns" /\ h.ret # NoData))

RECURSIVE NewInputs(_, _, _)
\* the submitInput calls the invocations of a step lead to
NewInputs(hs, hs2, i) ==
    IF i > Len(hs) THEN <<>>
    ELSE LET args == NewCalls(hs, hs2, i)
         IN (IF Submits(hs[i])
             THEN [j \in DOMAIN args |-> submission(hs[i], i, args[j])]
             ELSE <<>>) \o NewInputs(hs, hs2, i + 1)

RECURSIVE Rejections(_, _, _)
\* the invocations of a step whose fn throws: the async wrapper's promise rejects
Rejections(hs, hs2, i) ==
    IF i > Len(hs) THEN 0
    ELSE (IF hs[i].fn = "throws" THEN Len(NewCalls(hs, hs2, i)) ELSE 0)
         + Rejections(hs, hs2, i + 1)

\* the wrapper with the rejection caught and published on the bus as error
handlerFailureCaught(f, n) == [f EXCEPT !.error = @ + n]

\* n wrappers reject: async (...args) => { await fn(...args) } has no catch and
\* emit drops the promise, so each is an unhandled rejection
handlerFailure(f, n) == [f EXCEPT !.unhandled = @ + n]

\* the listeners registered through the on... methods run inside emit
HandlersRun ==
    /\ handlers' = InvokeAll(handlers, emitted')
    /\ pendingInputs' = pendingInputs \o NewInputs(handlers, handlers', 1)
    /\ failures' = handlerFailure(failures, Rejections(handlers, handlers', 1))

\* ------------------------------------------------------- shared helpers
\* LocalJob.getAwaitingInputKey: awaitingInputKeys.find(_ => _ != null) || null
getAwaitingInputKey(keys) == IF keys = <<>> THEN "null" ELSE Head(keys)

AwaitingKey == IF driver = "local" THEN getAwaitingInputKey(awaitingInputKeys)
               ELSE awaitingInputKey

\* _setState publishing the previous state as the new one
setStateStale(newState, previousState, err, aik, has) ==
    Emission("stateChanged", "none", previousState, previousState, newState, err, aik, has)

\* _setState(newState): the stateChanged notification, published after _state is stored
setState(newState, previousState, err, aik, has) ==
    Emission("stateChanged", "none", newState, previousState, newState, err, aik, has)

\* ------------------------------------------------------- Automation Cloud service
Event(id, name, key) == [id |-> id, name |-> name, key |-> key]
\* job.error as the service reports it; a field the payload lacks is "absent"
Payload(category, code, message, key) ==
    [category |-> category, code |-> code, message |-> message, key |-> key]
NoPayload == Payload("absent", "absent", "absent", "absent")

\* the payloads a job can fail with: none, a code alone, or the InputTimeout of
\* AcMock.requestInput for the awaited key
RemoteErrors(awaited) ==
    {NoPayload, Payload("absent", "Boo", "absent", "absent")}
       \cup (IF awaited \in Keys
             THEN {Payload("client", "InputTimeout", "not provided in time", awaited)}
             ELSE {})

\* params.input of createJob: nothing, or input a pre-supplied
InitInputs == {NoData, 1}

\* the service appends one event to the job's event log; requestInput also
\* records the awaited key
RemoteAppend(e, st, err, outs) ==
    /\ remoteExists
    /\ Len(remoteLog) < MaxLog
    /\ remoteLog' = Append(remoteLog, e)
    /\ remoteState' = st
    /\ remoteError' = err
    /\ remoteOutputs' = outs
    /\ remoteAwaitingKey' = IF e.name = "awaitingInput" THEN e.key ELSE remoteAwaitingKey
    /\ emitted' = <<>>
    /\ UNCHANGED <<driver, raised, ended, posting, got, state, error, errorDetails, waiters, wfc, published, reached, remoteExists, remoteCancels,
                   remoteInputs, cloudVars, localVars>>
    /\ HandlersRun

RemoteProcessing ==
    RemoteAppend(Event(Len(remoteLog) + 1, "processing", "none"), "processing", remoteError, remoteOutputs)

RemoteAwaitingInput ==
    \E k \in Keys :
        RemoteAppend(Event(Len(remoteLog) + 1, "awaitingInput", k), "awaitingInput", remoteError, remoteOutputs)

\* AcMock.addOutput: outputs.push, then the createOutput event; the lookup
\* (getJobOutput) answers with outputs.find, i.e. the first output stored for
\* the key.  addEvent('createOutput', key) alone logs the event with no output.
storeOutput(outs, key, data) ==
    IF data = NoData \/ outs[key] # NoData THEN outs ELSE [outs EXCEPT ![key] = data]

RemoteCreateOutput ==
    \E k \in Keys, d \in Data \cup {NoData} :
        RemoteAppend(Event(Len(remoteLog) + 1, "createOutput", k), remoteState, remoteError,
                     storeOutput(remoteOutputs, k, d))

RemoteSuccess ==
    RemoteAppend(Event(Len(remoteLog) + 1, "success", "none"), "success", remoteError, remoteOutputs)

RemoteFail ==
    \E e \in RemoteErrors(remoteAwaitingKey) :
        RemoteAppend(Event(Len(remoteLog) + 1, "fail", "none"), "fail", e, remoteOutputs)

\* the service logs a restart event
RemoteRestart ==
    RemoteAppend(Event(Len(remoteLog) + 1, "restart", "none"), remoteState, remoteError, remoteOutputs)

\* the service logs a tdsStart or tdsFinish event
RemoteTds ==
    \E n \in {"tdsStart", "tdsFinish"} :
        RemoteAppend(Event(Len(remoteLog) + 1, n, "none"), remoteState, remoteError, remoteOutputs)

\* ------------------------------------------------------- CloudJob
\* AcMock.addInputObject: one stored input per entry of the input object
addInputObject(ins, seed) ==
    IF seed = NoData THEN ins ELSE Append(ins, [key |-> "a", data |-> seed])

\* CloudJob.track(): nothing while _trackPromise is set
trackUnguarded(promise) == TRUE

\* CloudJob.track(): a _track loop is started unless _trackPromise is set
track(promise) == promise = "null"

TrackCall ==
    IF track(trackPromise)
    THEN /\ trackPromise' = "pending"
         /\ trk' = "fetch"
         /\ loops' = loops + 1
    ELSE UNCHANGED <<trackPromise, trk, loops>>

NoneRaised == [by |-> "none", name |-> "none", n |-> 0]

\* start and trackExisting: if (this._jobId) is never taken
alreadyStartedNever(id) == FALSE

\* start and trackExisting: if (this._jobId) throw JobAlreadyStarted
alreadyStarted(id) == id # "null"

\* the jobId getter: if (!this._jobId) throw InvalidStateError
getJobId(id) == IF id = "null" THEN "InvalidStateError" ELSE "none"

\* CloudJob.start: POST /jobs, _setState(state), seed inputsMap, track()
Start ==
    /\ driver = "cloud"
    /\ raised.n < MaxCalls
    /\ ~alreadyStarted(jobId)
    /\ raised' = [raised EXCEPT !.n = @ + 1]
    /\ ~remoteExists
    /\ remoteExists' = TRUE
    /\ jobId' = "job"
    /\ state' = remoteState
    /\ emitted' = <<setState(remoteState, state, error, awaitingInputKey,
                             CachedKeys(CurCache))>>
    /\ \E seed \in InitInputs :
          /\ inputsMap' = [inputsMap EXCEPT !["a"] = seed]
          /\ remoteInputs' = addInputObject(remoteInputs, seed)
    /\ TrackCall
    /\ UNCHANGED remoteCancels
    /\ reached' = reached \cup ({remoteState} \cap Terminal)
    /\ UNCHANGED <<driver, ended, posting, got, error, errorDetails, waiters, wfc, published, awaitingInputKey, outputsMap,
                   trackError, batch, jobEventOffset, processed, remoteState, remoteError,
                   remoteOutputs, remoteLog, remoteAwaitingKey, localVars>>
    /\ HandlersRun

\* CloudJob.trackExisting: GET /jobs/:id, _setState(state), track()
TrackExisting ==
    /\ driver = "cloud"
    /\ raised.n < MaxCalls
    /\ ~alreadyStarted(jobId)
    /\ raised' = [raised EXCEPT !.n = @ + 1]
    /\ remoteExists
    /\ jobId' = "job"
    /\ state' = remoteState
    /\ emitted' = <<setState(remoteState, state, error, awaitingInputKey,
                             CachedKeys(CurCache))>>
    /\ TrackCall
    /\ reached' = reached \cup ({remoteState} \cap Terminal)
    /\ UNCHANGED <<driver, ended, posting, got, error, errorDetails, waiters, wfc, published, awaitingInputKey, inputsMap,
                   outputsMap, trackError, batch, jobEventOffset, processed, remoteVars,
                   localVars>>
    /\ HandlersRun

\* CloudJob.start on a job that has a job id: throws before any request
StartStarted ==
    /\ driver = "cloud"
    /\ raised.n < MaxCalls
    /\ alreadyStarted(jobId)
    /\ raised' = [by |-> "start", name |-> "JobAlreadyStarted", n |-> raised.n + 1]
    /\ emitted' = <<>>
    /\ UNCHANGED <<driver, ended, posting, got, jobFrame, cloudVars, remoteVars, localVars,
                   handlerVars>>

\* CloudJob.trackExisting on a job that has a job id: throws before any request
TrackExistingStarted ==
    /\ driver = "cloud"
    /\ raised.n < MaxCalls
    /\ alreadyStarted(jobId)
    /\ raised' = [by |-> "trackExisting", name |-> "JobAlreadyStarted", n |-> raised.n + 1]
    /\ emitted' = <<>>
    /\ UNCHANGED <<driver, ended, posting, got, jobFrame, cloudVars, remoteVars, localVars,
                   handlerVars>>

\* reading CloudJob.jobId
GetJobId ==
    /\ driver = "cloud"
    /\ raised' = [raised EXCEPT !.by = "jobId", !.name = getJobId(jobId)]
    /\ emitted' = <<>>
    /\ UNCHANGED <<driver, ended, posting, got, jobFrame, cloudVars, remoteVars, localVars,
                   handlerVars>>

\* CloudJob.track called on a started job
Track ==
    /\ driver = "cloud"
    /\ jobId # "null"
    /\ TrackCall
    /\ emitted' = <<>>
    /\ UNCHANGED <<driver, raised, ended, posting, got, state, error, errorDetails, waiters, wfc, published, reached, jobId, awaitingInputKey,
                   inputsMap, outputsMap, trackError, batch, jobEventOffset, processed,
                   remoteVars, localVars>>
    /\ HandlersRun

\* AcMock.getJobEvents: events.slice(offset)
getJobEvents(log, offset) == SubSeq(log, offset + 1, Len(log))

\* the cursor left where it was after a poll
keepOffset(offset, n) == offset

\* the cursor after a poll that returned n events
advanceOffset(offset, n) == offset + n

\* _track: the getJobEvents response arrives, the cursor advances
TrackPoll ==
    /\ trk = "fetch"
    /\ LET events == getJobEvents(remoteLog, jobEventOffset)
       IN /\ jobEventOffset' = advanceOffset(jobEventOffset, Len(events))
          /\ batch' = events
    /\ trk' = "batch"
    /\ emitted' = <<>>
    /\ UNCHANGED <<driver, raised, ended, posting, got, state, error, errorDetails, waiters, wfc, published, reached, jobId, awaitingInputKey,
                   inputsMap, outputsMap, trackPromise, trackError, loops, processed,
                   remoteVars, localVars>>
    /\ HandlersRun

\* _track: the getJobEvents request fails; finally-sleep, then the loop throws
TrackPollFails ==
    /\ trk = "fetch"
    /\ trk' = "none"
    /\ trackPromise' = "rejected"
    /\ trackError' = "RequestFailed"
    /\ ended' = firstEnd(ended, "rejected", "RequestFailed", wfc)
    /\ loops' = loops - 1
    /\ wfc' = SettleCompletions(wfc, "rejected", "RequestFailed", "none", "none", state, published, reached)
    /\ emitted' = <<>>
    /\ UNCHANGED <<driver, raised, posting, got, state, error, errorDetails, waiters, published, reached, jobId, awaitingInputKey,
                   inputsMap, outputsMap, batch, jobEventOffset, processed, remoteVars,
                   localVars>>
    /\ HandlersRun

\* createOutput: this.outputsMap.set(key, { key, data, timestamp })
setOutput(omap, key, data) == [omap EXCEPT ![key] = data]

\* the for loop of _track taking the events last first
lastEvent(events) == events[Len(events)]

\* for (const event of events): the event the loop processes next
nextEvent(events) == Head(events)

\* AcApi.getJobOutputData: the stored output, null (NoData) when the service answers 404
getJobOutputData(outs, key) == outs[key]

\* an output is cached and published whatever the lookup returned
jobOutputAlways(jobOutput) == TRUE

\* if (jobOutput)
jobOutputFound(jobOutput) == jobOutput # NoData

\* a switch that treats a restart event as a processing event
jobEventNameRestarts(jobEvent) ==
    IF jobEvent.name = "restart" THEN "processing" ELSE jobEvent.name

\* switch (jobEvent.name)
jobEventName(jobEvent) == jobEvent.name

\* _processJobEvent for the next event of the batch
ProcessJobEvent ==
    /\ trk = "batch"
    /\ batch # <<>>
    /\ batch' = Tail(batch)
    /\ processed' = Append(processed, nextEvent(batch).id)
    /\ LET e == nextEvent(batch)
           has == CachedKeys(CurCache)
       IN CASE jobEventName(e) = "awaitingInput" ->
                 /\ state' = "awaitingInput"
                 /\ awaitingInputKey' = e.key
                 /\ emitted' = <<setState("awaitingInput", state, error, awaitingInputKey, has),
                                 Emission("awaitingInput", e.key, "none", "none",
                                          "awaitingInput", error, e.key, has)>>
                 /\ UNCHANGED <<error, errorDetails, outputsMap, waiters, published, reached>>
            [] jobEventName(e) = "createOutput" ->
                 LET data == getJobOutputData(remoteOutputs, e.key)
                     omap == setOutput(outputsMap, e.key, data)
                     cache == Cache(driver, outputs, omap)
                 IN IF jobOutputFound(data)
                    THEN /\ outputsMap' = omap
                         /\ emitted' = <<Emission("output", e.key, "none", "none", state,
                                                  error, awaitingInputKey, CachedKeys(cache))>>
                         /\ waiters' = Deliver(waiters, "output", cache)
                         /\ UNCHANGED <<state, error, errorDetails, awaitingInputKey, published, reached>>
                    ELSE /\ emitted' = <<>>
                         /\ UNCHANGED <<state, error, errorDetails, awaitingInputKey, outputsMap,
                                        waiters, published, reached>>
            [] jobEventName(e) = "processing" ->
                 /\ state' = "processing"
                 /\ emitted' = <<setState("processing", state, error, awaitingInputKey, has)>>
                 /\ UNCHANGED <<error, errorDetails, awaitingInputKey, outputsMap, waiters, published, reached>>
            [] jobEventName(e) = "success" ->
                 /\ state' = "success"
                 /\ emitted' = <<setState("success", state, error, awaitingInputKey, has),
                                 Emission("success", "none", "none", "none", "success",
                                          error, awaitingInputKey, has)>>
                 /\ waiters' = Deliver(waiters, "success", CurCache)
                 /\ published' = published \cup {"success"}
                 /\ reached' = reached \cup {"success"}
                 /\ UNCHANGED <<error, errorDetails, awaitingInputKey, outputsMap>>
            [] jobEventName(e) = "fail" ->
                 /\ state' = "fail"
                 /\ error' = jobError(remoteError).code
                 /\ errorDetails' = Details(jobError(remoteError))
                 /\ emitted' = <<setState("fail", state, error, awaitingInputKey, has),
                                 FailEmission(Exception(jobError(remoteError).code,
                                                        jobError(remoteError).category,
                                                        jobError(remoteError).key),
                                              "fail", jobError(remoteError).code,
                                              awaitingInputKey, has)>>
                 /\ waiters' = Deliver(waiters, "fail", CurCache)
                 /\ published' = published \cup {"fail"}
                 /\ reached' = reached \cup {"fail"}
                 /\ UNCHANGED <<awaitingInputKey, outputsMap>>
            [] OTHER ->
                 /\ emitted' = <<>>
                 /\ UNCHANGED <<state, error, errorDetails, awaitingInputKey, outputsMap, waiters, published, reached>>
    /\ UNCHANGED <<driver, raised, ended, posting, got, wfc, jobId, inputsMap, trackPromise, trackError, trk,
                   jobEventOffset, loops, remoteVars, localVars>>
    /\ HandlersRun

\* _processJobEvent: the remote lookup of a createOutput or fail event fails; the
\* exception leaves the for loop and, after the finally-sleep, _track
ProcessJobEventFails ==
    /\ trk = "batch"
    /\ batch # <<>>
    /\ nextEvent(batch).name \in {"createOutput", "fail"}
    /\ processed' = Append(processed, nextEvent(batch).id)
    /\ batch' = <<>>
    /\ trk' = "none"
    /\ trackPromise' = "rejected"
    /\ trackError' = "RequestFailed"
    /\ ended' = firstEnd(ended, "rejected", "RequestFailed", wfc)
    /\ loops' = loops - 1
    /\ wfc' = SettleCompletions(wfc, "rejected", "RequestFailed", "none", "none", state, published, reached)
    /\ emitted' = <<>>
    /\ UNCHANGED <<driver, raised, posting, got, state, error, errorDetails, waiters, published, reached, jobId, awaitingInputKey,
                   inputsMap, outputsMap, jobEventOffset, remoteVars, localVars>>
    /\ HandlersRun

\* _track after the batch: return on success, throw on fail, else sleep and poll again
TrackAfterBatch ==
    /\ trk = "batch"
    /\ batch = <<>>
    /\ emitted' = <<>>
    /\ CASE state = "success" ->
              /\ trk' = "none"
              /\ trackPromise' = "null"
              /\ ended' = firstEnd(ended, "resolved", "none", wfc)
              /\ loops' = loops - 1
              /\ wfc' = SettleCompletions(wfc, "resolved", "none", "none", "none", state, published, reached)
              /\ UNCHANGED trackError
         [] state = "fail" ->
              /\ trk' = "none"
              /\ trackPromise' = "rejected"
              /\ trackError' = trackException(error, errorDetails).name
              /\ ended' = firstEnd(ended, "rejected", trackException(error, errorDetails).name, wfc)
              /\ loops' = loops - 1
              /\ wfc' = SettleCompletions(wfc, "rejected",
                                          trackException(error, errorDetails).name,
                                          trackException(error, errorDetails).key,
                                          trackException(error, errorDetails).category,
                                          state, published, reached)
         [] OTHER ->
              /\ trk' = "fetch"
              /\ UNCHANGED <<trackPromise, trackError, wfc, loops, ended>>
    /\ UNCHANGED <<driver, raised, posting, got, state, error, errorDetails, waiters, published, reached, jobId, awaitingInputKey,
                   inputsMap, outputsMap, batch, jobEventOffset, processed, remoteVars,
                   localVars>>
    /\ HandlersRun

\* ------------------------------------------------------- LocalJob / LocalFlowService
\* LocalFlowService.initInputs: one input per entry of params.input
initInputs(seed) == IF seed = NoData THEN <<>> ELSE <<[key |-> "a", data |-> seed]>>

LocalCloudUnchanged == UNCHANGED <<driver, raised, posting, got, cloudVars, remoteVars>>

ScriptErrors == {"Boo", "none"}

\* LocalJob.run: no-op while a run is active, else start _run
Run ==
    /\ driver = "local"
    /\ runPromise = "null"
    /\ runs < MaxRuns
    /\ runs' = runs + 1
    /\ runPromise' = "pending"
    /\ pcRun' = "initScript"
    /\ steps' = 0
    /\ emitted' = <<>>
    /\ UNCHANGED <<state, error, errorDetails, waiters, wfc, published, reached, inputs, outputs, script,
                   awaitingInputKeys, runError, request, inputRequest, scriptError, errorKey, submits>>
    /\ LocalCloudUnchanged
    /\ UNCHANGED ended
    /\ HandlersRun

\* _run: _initScript succeeded, the script listeners are set up
InitScript ==
    /\ pcRun = "initScript"
    /\ pcRun' = "initialize"
    /\ script' = "loaded"
    /\ emitted' = <<>>
    /\ UNCHANGED <<state, error, errorDetails, waiters, wfc, published, reached, inputs, outputs, awaitingInputKeys,
                   runPromise, runError, request, inputRequest, scriptError, errorKey, steps, runs, submits>>
    /\ LocalCloudUnchanged
    /\ UNCHANGED ended
    /\ HandlersRun

\* _run: a step before the script runs throws; finally _finalize, then _run rejects
RunSetupFails ==
    /\ pcRun \in {"initScript", "initialize"}
    /\ pcRun' = "idle"
    /\ runPromise' = "rejected"
    /\ runError' = IF pcRun = "initScript" THEN "BadScript" ELSE "ConnectFailed"
    /\ ended' = firstEnd(ended, "rejected", runError', wfc)
    /\ wfc' = SettleCompletions(wfc, "rejected", runError', "none", "none", state, published, reached)
    /\ emitted' = <<>>
    /\ UNCHANGED <<state, error, errorDetails, waiters, published, reached, inputs, outputs, script, awaitingInputKeys,
                   request, inputRequest, scriptError, errorKey, steps, runs, submits>>
    /\ LocalCloudUnchanged
    /\ HandlersRun

\* _initialize: connect, open tab, start session, then this._state = PROCESSING
Initialize ==
    /\ pcRun = "initialize"
    /\ pcRun' = "running"
    /\ state' = "processing"
    /\ emitted' = <<>>
    /\ UNCHANGED <<error, errorDetails, waiters, wfc, published, reached, inputs, outputs, script, awaitingInputKeys,
                   runPromise, runError, request, inputRequest, scriptError, errorKey, steps, runs, submits>>
    /\ LocalCloudUnchanged
    /\ UNCHANGED ended
    /\ HandlersRun

\* LocalFlowService.tick: super.tick, then _setState(PROCESSING)
Tick ==
    /\ pcRun = "running"
    /\ steps < MaxSteps
    /\ steps' = steps + 1
    /\ state' = "processing"
    /\ emitted' = <<setState("processing", state, error, AwaitingKey, CachedKeys(CurCache))>>
    /\ UNCHANGED <<error, errorDetails, waiters, wfc, published, reached, inputs, outputs, script, awaitingInputKeys,
                   runPromise, runError, pcRun, request, inputRequest, scriptError, errorKey, runs, submits>>
    /\ LocalCloudUnchanged
    /\ UNCHANGED ended
    /\ HandlersRun

\* a mutant of the push: the output is not stored before it is published
pushOutputLater(outs, key, data) == outs

\* sendOutputData: this.outputs.push(output)
pushOutput(outs, key, data) == Append(outs, [key |-> key, data |-> data])

\* LocalFlowService.sendOutputData: push, then emit output
SendOutputData ==
    /\ pcRun = "running"
    /\ steps < MaxSteps
    /\ steps' = steps + 1
    /\ \E k \in Keys, d \in Data :
          LET outs == pushOutput(outputs, k, d)
              cache == Cache(driver, outs, outputsMap)
          IN /\ outputs' = outs
             /\ emitted' = <<Emission("output", k, "none", "none", state, error,
                                      AwaitingKey, CachedKeys(cache))>>
             /\ waiters' = Deliver(waiters, "output", cache)
    /\ UNCHANGED <<state, error, errorDetails, wfc, published, reached, inputs, awaitingInputKeys,
                   runPromise, runError, pcRun, request, inputRequest, scriptError, errorKey, runs, submits>>
    /\ UNCHANGED script
    /\ LocalCloudUnchanged
    /\ UNCHANGED ended
    /\ HandlersRun

\* ------------------------------------------------------- requestInputData
\* submitInput deduplicated: an input whose key is already supplied is not stored
pushInputOnce(ins, k, d) ==
    IF \E i \in DOMAIN ins : ins[i].key = k THEN ins ELSE Append(ins, [key |-> k, data |-> d])

\* this.inputs.push(this._createInput(key, data))
pushInput(ins, k, d) == Append(ins, [key |-> k, data |-> d])

\* an input notification: the input is its argument; stored tells whether the
\* input cache holds it when it is published
InputEmission(k, d, ins, st, err, aik, has) ==
    Emission("input", k, "none", "none", st, err, aik, has)
       @@ [data |-> d, stored |-> \E i \in DOMAIN ins : ins[i] = [key |-> k, data |-> d]]

NoRequest == [n |-> 0, key |-> "none", status |-> "none", data |-> NoData, name |-> "none",
              settled |-> 0, subs |-> {}, timer |-> FALSE]

\* requestInputData that never finds a cached input
existingInputNone(ins, key) == NoData

\* const existingInput = this.inputs.find(_ => _.key === key)
existingInput(ins, key) == FindInput(ins, key)

\* return existingInput.data
cachedRequest(r, key, data) ==
    [NoRequest EXCEPT !.n = r.n + 1, !.key = key, !.status = "cached", !.data = data]

\* new Promise: setTimeout, on('input', onInput), on('stateChanged', onStateChanged)
newRequest(r, key) ==
    [NoRequest EXCEPT !.n = r.n + 1, !.key = key, !.status = "pending",
                      !.subs = {"input", "stateChanged"}, !.timer = TRUE]

\* cleanup that leaves the two listeners registered
cleanupRequestTimerOnly(r) == [r EXCEPT !.timer = FALSE]

\* cleanup(): clearTimeout(timer), off('input', onInput), off('stateChanged', onStateChanged)
cleanupRequest(r) == [r EXCEPT !.timer = FALSE, !.subs = {}]

\* resolve / reject: a promise keeps its first outcome; settled counts the calls
settle(r, status, data, name) ==
    IF r.status = "pending"
    THEN [r EXCEPT !.status = status, !.data = data, !.name = name, !.settled = @ + 1]
    ELSE [r EXCEPT !.settled = @ + 1]

\* onInput resolving for an input of any key
onInputAnyKey(r, key, data) ==
    IF "input" \in r.subs
    THEN settle(cleanupRequest(r), "resolved", data, "none")
    ELSE r

\* onInput: if (input.key === key) { cleanup(); resolve(input.data) }
onInput(r, key, data) ==
    IF "input" \in r.subs /\ key = r.key
    THEN settle(cleanupRequest(r), "resolved", data, "none")
    ELSE r

\* onStateChanged rejecting on every state change
interruptsAlways(newState) == TRUE

\* if (state !== JobState.AWAITING_INPUT)
interrupts(newState) == newState # "awaitingInput"

\* onStateChanged: cleanup(); reject(new Exception({ name: 'AwaitingInputInterrupted' }))
onStateChanged(r, newState) ==
    IF "stateChanged" \in r.subs /\ interrupts(newState)
    THEN settle(cleanupRequest(r), "rejected", NoData, "AwaitingInputInterrupted")
    ELSE r

\* the timeout exception without its details
inputTimeoutNoDetails(key) == [name |-> "InputTimeout", key |-> "none"]

\* new Exception({ name: 'InputTimeout', details: { key } })
inputTimeout(key) == [name |-> "InputTimeout", key |-> key]

\* the setTimeout callback: cleanup(); reject(InputTimeout)
onTimer(r) ==
    IF r.timer THEN settle(cleanupRequest(r), "rejected", NoData, inputTimeout(r.key).name)
    ELSE r

\* the registrations whose fn submits an input inside the stateChanged notification
SyncSubmits(hs) ==
    SelectSeq(hs, LAMBDA h : h.active /\ h.event = "stateChanged" /\ h.fn = "submitsNow")

RECURSIVE onInputs(_, _)
onInputs(r, subs) ==
    IF subs = <<>> THEN r
    ELSE onInputs(onInput(r, Head(subs).key, Head(subs).ret), Tail(subs))

RECURSIVE pushInputs(_, _)
pushInputs(ins, subs) ==
    IF subs = <<>> THEN ins
    ELSE pushInputs(pushInput(ins, Head(subs).key, Head(subs).ret), Tail(subs))

\* this.awaitingInputKeys.filter(k => k !== key)
filterKey(keys, key) == SelectSeq(keys, LAMBDA x : x # key)

\* LocalFlowService.requestInputData: the cached input, or a promise with its timer
\* and listeners, awaitingInputKeys.push, _setState(AWAITING_INPUT), emit awaitingInput.
\* A stateChanged listener that submits an input does so inside _setState, before
\* awaitingInput is published.
RequestInputData ==
    /\ pcRun = "running"
    /\ steps < MaxSteps
    /\ steps' = steps + 1
    /\ \E k \in Keys :
          IF existingInput(inputs, k) # NoData
          THEN /\ inputRequest' = cachedRequest(inputRequest, k, existingInput(inputs, k))
               /\ emitted' = <<>>
               /\ UNCHANGED <<state, inputs, awaitingInputKeys, pcRun, request, scriptError,
                              errorKey>>
          ELSE LET subs == SyncSubmits(handlers)
                   has == CachedKeys(CurCache)
                   pushed == Append(awaitingInputKeys, k)
                   keysAt(i) == IF \E j \in 1..i : subs[j].key = k /\ "input" \in newRequest(inputRequest, k).subs
                                THEN filterKey(pushed, k) ELSE pushed
                   r == onStateChanged(onInputs(newRequest(inputRequest, k), subs),
                                       "awaitingInput")
               IN /\ inputRequest' = r
                  /\ inputs' = pushInputs(inputs, subs)
                  /\ awaitingInputKeys' = keysAt(Len(subs))
                  /\ state' = "awaitingInput"
                  /\ emitted' =
                        <<setState("awaitingInput", state, error,
                                   getAwaitingInputKey(pushed), has)>>
                        \o [i \in DOMAIN subs |->
                              InputEmission(subs[i].key, subs[i].ret,
                                            pushInputs(inputs, SubSeq(subs, 1, i)),
                                            "awaitingInput", error,
                                            getAwaitingInputKey(keysAt(i - 1)), has)]
                        \o <<Emission("awaitingInput", k, "none", "none", "awaitingInput",
                                      error, getAwaitingInputKey(keysAt(Len(subs))), has)
                                @@ [pending |-> r.status = "pending"]>>
                  /\ CASE r.status = "pending" ->
                            /\ pcRun' = "awaitingInput"
                            /\ request' = k
                            /\ UNCHANGED <<scriptError, errorKey>>
                       [] r.status = "resolved" ->
                            /\ pcRun' = "running"
                            /\ request' = "none"
                            /\ UNCHANGED <<scriptError, errorKey>>
                       [] OTHER ->
                            /\ pcRun' = "failing"
                            /\ request' = "none"
                            /\ scriptError' = r.name
                            /\ errorKey' = "none"
    /\ UNCHANGED <<error, errorDetails, waiters, wfc, published, reached, outputs, script,
                   runPromise, runError, runs, submits>>
    /\ LocalCloudUnchanged
    /\ UNCHANGED ended
    /\ HandlersRun

\* the timer of a pending requestInputData fires: cleanup, reject with InputTimeout
InputTimeout ==
    /\ pcRun = "awaitingInput"
    /\ inputRequest.timer
    /\ inputRequest' = onTimer(inputRequest)
    /\ pcRun' = "failing"
    /\ request' = "none"
    /\ scriptError' = inputTimeout(request).name
    /\ errorKey' = inputTimeout(request).key
    /\ emitted' = <<>>
    /\ UNCHANGED <<state, error, errorDetails, waiters, wfc, published, reached, inputs, outputs, script,
                   awaitingInputKeys, runPromise, runError, steps, runs, submits>>
    /\ LocalCloudUnchanged
    /\ UNCHANGED ended
    /\ HandlersRun

\* the engine ticks while a request is pending (playback went on without the
\* action that made the request): _setState(PROCESSING) reaches the request's
\* onStateChanged listener, which rejects with AwaitingInputInterrupted; the
\* script goes on, or fails with that error when the action still awaits it
TickPending ==
    /\ pcRun = "awaitingInput"
    /\ steps < MaxSteps
    /\ steps' = steps + 1
    /\ state' = "processing"
    /\ emitted' = <<setState("processing", state, error, AwaitingKey, CachedKeys(CurCache))>>
    /\ inputRequest' = onStateChanged(inputRequest, "processing")
    /\ IF inputRequest'.status = "pending"
       THEN UNCHANGED <<pcRun, request, scriptError, errorKey>>
       ELSE /\ request' = "none"
            /\ \/ pcRun' = "running" /\ UNCHANGED <<scriptError, errorKey>>
               \/ /\ pcRun' = "failing"
                  /\ scriptError' = inputRequest'.name
                  /\ errorKey' = "none"
    /\ UNCHANGED <<error, errorDetails, waiters, wfc, published, reached, inputs, outputs, script,
                   awaitingInputKeys, runPromise, runError, runs, submits>>
    /\ LocalCloudUnchanged
    /\ UNCHANGED ended
    /\ HandlersRun

\* the script reaches a Flow.fail action
FlowFail ==
    /\ pcRun = "running"
    /\ pcRun' = "failing"
    /\ \E e \in ScriptErrors : scriptError' = e
    /\ errorKey' = "none"
    /\ emitted' = <<>>
    /\ UNCHANGED <<state, error, errorDetails, waiters, wfc, published, reached, inputs, outputs, script, awaitingInputKeys,
                   runPromise, runError, request, inputRequest, steps, runs, submits>>
    /\ LocalCloudUnchanged
    /\ UNCHANGED ended
    /\ HandlersRun

\* _setupScriptListeners, script 'success': _setState(SUCCESS), emit success
ScriptSuccess ==
    /\ pcRun = "running"
    /\ pcRun' = "succeeded"
    /\ state' = "success"
    /\ LET has == CachedKeys(CurCache)
       IN emitted' = <<setState("success", state, error, AwaitingKey, has),
                       Emission("success", "none", "none", "none", "success", error,
                                AwaitingKey, has)>>
    /\ waiters' = Deliver(waiters, "success", CurCache)
    /\ published' = published \cup {"success"}
    /\ reached' = reached \cup {"success"}
    /\ UNCHANGED <<error, errorDetails, wfc, inputs, outputs, script, awaitingInputKeys, runPromise, runError,
                   request, inputRequest, scriptError, errorKey, steps, runs, submits>>
    /\ LocalCloudUnchanged
    /\ UNCHANGED ended
    /\ HandlersRun

\* _setupScriptListeners, script 'fail': _setState(FAIL), emit fail with the playback error
ScriptFail ==
    /\ pcRun = "failing"
    /\ pcRun' = "failed"
    /\ state' = "fail"
    /\ LET has == CachedKeys(CurCache)
           name == IF scriptError = "none" THEN "UnknownError" ELSE scriptError
       IN emitted' = <<setState("fail", state, error, AwaitingKey, has),
                       FailEmission(Exception(name, "none", errorKey), "fail", error,
                                    AwaitingKey, has)>>
    /\ waiters' = Deliver(waiters, "fail", CurCache)
    /\ published' = published \cup {"fail"}
    /\ reached' = reached \cup {"fail"}
    /\ UNCHANGED <<error, errorDetails, wfc, inputs, outputs, script, awaitingInputKeys, runPromise, runError,
                   request, inputRequest, scriptError, errorKey, steps, runs, submits>>
    /\ LocalCloudUnchanged
    /\ UNCHANGED ended
    /\ HandlersRun

\* _run: runAll has settled; finally _finalize, then the run promise settles
RunFinish ==
    /\ pcRun \in {"succeeded", "failed"}
    /\ pcRun' = "idle"
    /\ emitted' = <<>>
    /\ IF pcRun = "succeeded"
       THEN /\ runPromise' = "null"
            /\ ended' = firstEnd(ended, "resolved", "none", wfc)
            /\ wfc' = SettleCompletions(wfc, "resolved", "none", "none", "none", state, published, reached)
            /\ UNCHANGED runError
       ELSE /\ runPromise' = "rejected"
            /\ runError' = scriptError
            /\ ended' = firstEnd(ended, "rejected", scriptError, wfc)
            /\ wfc' = SettleCompletions(wfc, "rejected", scriptError, errorKey, "none", state,
                                        published, reached)
    /\ UNCHANGED <<state, error, errorDetails, waiters, published, reached, inputs, outputs, script, awaitingInputKeys,
                   request, inputRequest, scriptError, errorKey, steps, runs, submits>>
    /\ LocalCloudUnchanged
    /\ HandlersRun

\* LocalFlowService.submitInput: push the input, emit input; the pending request's
\* onInput listener resolves when the key matches
flowSubmitInput(k, d) ==
    /\ inputs' = pushInput(inputs, k, d)
    /\ emitted' = <<InputEmission(k, d, inputs', state, error, AwaitingKey,
                                  CachedKeys(CurCache))>>
    /\ inputRequest' = onInput(inputRequest, k, d)
    /\ IF inputRequest' # inputRequest
       THEN awaitingInputKeys' = filterKey(awaitingInputKeys, inputRequest.key)
       ELSE UNCHANGED awaitingInputKeys
    /\ IF inputRequest.status = "pending" /\ inputRequest'.status # "pending"
       THEN /\ request' = "none"
            /\ pcRun' = "running"
       ELSE UNCHANGED <<request, pcRun>>
    /\ UNCHANGED <<state, error, errorDetails, waiters, wfc, published, reached, outputs, script, runPromise, runError,
                   scriptError, errorKey, steps, runs>>
    /\ LocalCloudUnchanged
    /\ UNCHANGED ended

\* LocalJob.submitInput called by the user
LocalSubmitInput ==
    /\ driver = "local"
    /\ submits < MaxInputs
    /\ submits' = submits + 1
    /\ \E k \in Keys, d \in Data : flowSubmitInput(k, d)
    /\ HandlersRun

\* AcMock.createInput: store the input; when it is the awaited key, setState(PROCESSING)
createInput(k, d) ==
    /\ remoteInputs' = Append(remoteInputs, [key |-> k, data |-> d])
    /\ IF remoteAwaitingKey = k
       THEN /\ remoteState' = "processing"
            /\ remoteLog' = Append(remoteLog, Event(Len(remoteLog) + 1, "processing", "none"))
       ELSE UNCHANGED <<remoteState, remoteLog>>
    /\ UNCHANGED <<remoteExists, remoteCancels, remoteError, remoteOutputs, remoteAwaitingKey>>

\* submitInput that never records the input
setInputNever(imap, k, d) == imap

\* this.inputsMap.set(key, { key, data, timestamp })
setInput(imap, k, d) == [imap EXCEPT ![k] = d]

\* CloudJob.submitInput: POST the input, then inputsMap.set
sendJobInput(k, d) ==
    /\ createInput(k, d)
    /\ inputsMap' = setInput(inputsMap, k, d)
    /\ emitted' = <<>>
    /\ UNCHANGED <<driver, raised, ended, posting, got, state, error, errorDetails, waiters, wfc, published, reached, jobId, awaitingInputKey,
                   outputsMap, trackPromise, trackError, trk, batch, jobEventOffset, loops,
                   processed, inputs, outputs, script, awaitingInputKeys, runPromise, runError,
                   pcRun, request, inputRequest, scriptError, errorKey, steps, runs>>

NoPost == [key |-> "none", data |-> NoData, status |-> "none"]

\* CloudJob.submitInput is called: the POST request is sent
SubmitInputCall ==
    /\ driver = "cloud"
    /\ jobId # "null"
    /\ submits < MaxInputs
    /\ posting.status \notin {"sending", "accepted"}
    /\ submits' = submits + 1
    /\ \E k \in Keys, d \in Data : posting' = [key |-> k, data |-> d, status |-> "sending"]
    /\ emitted' = <<>>
    /\ UNCHANGED <<driver, raised, ended, got, jobFrame, cloudVars, remoteVars, inputs, outputs, script,
                   awaitingInputKeys, runPromise, runError, pcRun, request, inputRequest,
                   scriptError, errorKey, steps, runs>>
    /\ HandlersRun

\* the service handles the POST (AcMock.createInput) and answers 201
PostInput ==
    /\ posting.status = "sending"
    /\ posting' = [posting EXCEPT !.status = "accepted"]
    /\ createInput(posting.key, posting.data)
    /\ emitted' = <<>>
    /\ UNCHANGED <<driver, raised, ended, got, jobFrame, cloudVars, localVars>>
    /\ HandlersRun

\* the POST fails: api.sendJobInput throws and submitInput rejects
PostInputFails ==
    /\ posting.status = "sending"
    /\ posting' = [posting EXCEPT !.status = "rejected"]
    /\ emitted' = <<>>
    /\ UNCHANGED <<driver, raised, ended, got, jobFrame, cloudVars, remoteVars, localVars>>
    /\ HandlersRun

\* the response of the POST arrives: inputsMap.set, submitInput resolves
SubmitInputReturns ==
    /\ posting.status = "accepted"
    /\ posting' = [posting EXCEPT !.status = "resolved"]
    /\ inputsMap' = setInput(inputsMap, posting.key, posting.data)
    /\ emitted' = <<>>
    /\ UNCHANGED <<driver, raised, ended, got, jobFrame, jobId, awaitingInputKey, outputsMap, trackPromise,
                   trackError, trk, batch, jobEventOffset, loops, processed, remoteVars,
                   localVars>>
    /\ HandlersRun

\* CloudJob.submitInput called by the user
CloudSubmitInput ==
    /\ driver = "cloud"
    /\ jobId # "null"
    /\ submits < MaxInputs
    /\ submits' = submits + 1
    /\ \E k \in Keys, d \in Data : sendJobInput(k, d)
    /\ HandlersRun

\* ------------------------------------------------------- cancel
\* cancel that pauses a script that was never loaded
pauseAlways(sc) == "paused"

\* LocalJob.cancel: if (this.script) { this.script.pause() }
pause(sc) == IF sc = "null" THEN sc ELSE "paused"

\* LocalJob.cancel: the engine is told to pause playback; it may go on for a while
LocalCancel ==
    /\ driver = "local"
    /\ script' = pause(script)
    /\ emitted' = <<>>
    /\ UNCHANGED <<driver, raised, ended, posting, got, jobFrame, cloudVars, remoteVars, inputs, outputs,
                   awaitingInputKeys, runPromise, runError, pcRun, request, inputRequest,
                   scriptError, errorKey, steps, runs, submits>>
    /\ HandlersRun

\* CloudJob.cancel: POST /jobs/:id/cancel; the service fails the job later, if at all
CloudCancel ==
    /\ driver = "cloud"
    /\ jobId # "null"
    /\ remoteCancels < MaxCancels
    /\ remoteCancels' = remoteCancels + 1
    /\ emitted' = <<>>
    /\ UNCHANGED <<driver, raised, ended, posting, got, jobFrame, cloudVars, remoteExists, remoteState,
                   remoteError, remoteOutputs, remoteLog, remoteInputs, remoteAwaitingKey,
                   localVars>>
    /\ HandlersRun

\* ------------------------------------------------------- on... registrations
\* _createJobEventHandler: this._events.on(event, handler)
createJobEventHandler(hs, event, key, cb) ==
    Append(hs, [event |-> event, key |-> key, fn |-> cb.fn, ret |-> cb.ret,
                active |-> TRUE, calls |-> <<>>, submitted |-> 0])

\* the closure a registration returns, applied to every listener of the event
offEvery(hs, i) ==
    [j \in DOMAIN hs |-> IF hs[j].event = hs[i].event THEN [hs[j] EXCEPT !.active = FALSE]
                         ELSE hs[j]]

\* the closure a registration returns: this._events.off(event, handler)
off(hs, i) == [hs EXCEPT ![i].active = FALSE]

\* a caller holds the job: createJob / getJob of the cloud robot resolve after start
Callable == driver = "cloud" => jobId # "null"

\* eventemitter3 keeps one listener list per event name, so listeners of
\* different events never meet: the registrations explored together are those
\* of one event
Register(event, key, cb) ==
    /\ Callable
    /\ Len(handlers) < MaxHandlers
    /\ \A i \in DOMAIN handlers : handlers[i].event = event
    /\ handlers' = createJobEventHandler(handlers, event, key, cb)
    /\ emitted' = <<>>
    /\ UNCHANGED <<driver, raised, ended, posting, got, jobFrame, cloudVars, remoteVars, localVars, pendingInputs, failures>>

OnAwaitingInput ==
    \E key \in {"a", "*"}, cb \in Callbacks :
        /\ Cardinality({i \in DOMAIN handlers : handlers[i].event = "awaitingInput"})
              < MaxInputHandlers
        /\ (cb.fn = "submits") <=> (key = "*")
        /\ Register("awaitingInput", key, cb)

\* job.onAwaitingInput('*', fn) with a callback of any kind
OnAwaitingInputWildcard ==
    \E cb \in Callbacks :
        /\ Cardinality({i \in DOMAIN handlers : handlers[i].event = "awaitingInput"})
              < MaxInputHandlers
        /\ Register("awaitingInput", "*", cb)

OnOutput == \E cb \in Plain : Register("output", "b", cb)

OnAnyOutput == \E cb \in Plain : Register("output", "*", cb)

OnStateChanged == \E cb \in Plain : Register("stateChanged", "none", cb)

OnSuccess == \E cb \in Plain : Register("success", "none", cb)

OnFail == \E cb \in Plain : Register("fail", "none", cb)

\* the caller invokes the closure a registration returned
Unsubscribe ==
    /\ \E i \in DOMAIN handlers :
          /\ handlers[i].active
          /\ handlers' = off(handlers, i)
    /\ emitted' = <<>>
    /\ UNCHANGED <<driver, raised, ended, posting, got, jobFrame, cloudVars, remoteVars, localVars, pendingInputs, failures>>

\* the wrapper of an onAwaitingInput registration resumes after fn has settled:
\* await this.submitInput(key, data)
HandlerSubmit ==
    \E n \in DOMAIN pendingInputs :
        LET p == pendingInputs[n]
        IN /\ pendingInputs' = SubSeq(pendingInputs, 1, n - 1)
                                  \o SubSeq(pendingInputs, n + 1, Len(pendingInputs))
           /\ handlers' = [handlers EXCEPT ![p.h].submitted = @ + 1]
           /\ IF driver = "local"
              THEN flowSubmitInput(p.key, p.data)
              ELSE sendJobInput(p.key, p.data)
           /\ UNCHANGED <<submits, failures>>

\* LocalRobot._createJob has returned the job: run() was called (autoRunJobs) and
\* _run has not got past _initScript, or the job is yet to be run
JustCreated == driver = "local" /\ runs <= 1 /\ steps = 0
                  /\ (pcRun = "initScript" \/ (pcRun = "idle" /\ runs = 0))

\* a registration made right after createJob, one listener per event
ListenFromCreation(event, key, cb) ==
    /\ JustCreated
    /\ \A i \in DOMAIN handlers : handlers[i].event # event
    /\ handlers' = createJobEventHandler(handlers, event, key, cb)
    /\ emitted' = <<>>
    /\ UNCHANGED <<driver, raised, ended, posting, got, jobFrame, cloudVars, remoteVars, localVars, pendingInputs, failures>>

\* job.onStateChanged(async state => { states.push(state) }) after createJob
OnStateChangedAtCreation ==
    ListenFromCreation("stateChanged", "none", [fn |-> "returns", ret |-> NoData])

\* job.onStateChanged(async state => { if (state === AWAITING_INPUT) await job.submitInput(key, data) })
OnStateChangedSubmit ==
    \E k \in Keys, d \in Data :
        ListenFromCreation("stateChanged", k, [fn |-> "submitsNow", ret |-> d])

\* job.onAwaitingInput(key, () => data) after createJob
OnAwaitingInputAtCreation ==
    \E k \in Keys, d \in Data :
        ListenFromCreation("awaitingInput", k, [fn |-> "returns", ret |-> d])

\* ------------------------------------------------------- getOutput
\* getOutput answered from the cache alone
getOutputCacheOnly(drv, outs, omap, remote, key) ==
    IF drv = "local" THEN FindOutput(outs, key) ELSE omap[key]

\* LocalJob.getOutput: outputs.find(_ => _.key === key)?.data
\* CloudJob.getOutput: the cached data, else (await getJobOutputData)?.data, null on 404
getOutput(drv, outs, omap, remote, key) ==
    IF drv = "local" THEN FindOutput(outs, key)
    ELSE IF omap[key] # NoData THEN omap[key]
    ELSE remote[key]

\* a caller calls job.getOutput(key) and the promise resolves
GetOutput ==
    /\ Callable
    /\ \E k \in Keys :
          got' = [key |-> k, status |-> "resolved",
                  data |-> getOutput(driver, outputs, outputsMap, remoteOutputs, k),
                  name |-> "none"]
    /\ emitted' = <<>>
    /\ UNCHANGED <<driver, raised, ended, posting, jobFrame, cloudVars, remoteVars, localVars, handlerVars>>

\* CloudJob.getOutput: the remote lookup fails with an error other than 404
GetOutputFails ==
    /\ driver = "cloud"
    /\ jobId # "null"
    /\ \E k \in Keys :
          /\ outputsMap[k] = NoData
          /\ got' = [key |-> k, status |-> "rejected", data |-> NoData,
                     name |-> "RequestFailed"]
    /\ emitted' = <<>>
    /\ UNCHANGED <<driver, raised, ended, posting, jobFrame, cloudVars, remoteVars, localVars, handlerVars>>

\* ------------------------------------------------------- specification
Init ==
    /\ driver \in {"local", "cloud"}
    /\ raised = NoneRaised
    /\ ended = [status |-> "none", name |-> "none", calls |-> 0]
    /\ posting = NoPost
    /\ got = [key |-> "none", status |-> "none", data |-> NoData, name |-> "none"]
    /\ state = "created"
    /\ error = "null"
    /\ errorDetails = NoDetails
    /\ waiters = <<>>
    /\ wfc = <<>>
    /\ emitted = <<>>
    /\ published = {}
    /\ reached = {}
    /\ jobId = "null"
    /\ awaitingInputKey = "null"
    /\ inputsMap = [k \in InputKeys |-> NoData]
    /\ outputsMap = [k \in Keys |-> NoData]
    /\ trackPromise = "null"
    /\ trackError = "none"
    /\ trk = "none"
    /\ batch = <<>>
    /\ jobEventOffset = 0
    /\ loops = 0
    /\ processed = <<>>
    /\ remoteExists \in IF driver = "cloud" THEN BOOLEAN ELSE {FALSE}
    /\ remoteState = "processing"
    /\ remoteError = NoPayload
    /\ remoteOutputs = [k \in Keys |-> NoData]
    /\ remoteLog = <<>>
    /\ remoteInputs = <<>>
    /\ remoteAwaitingKey = "null"
    /\ remoteCancels = 0
    /\ inputs \in IF driver = "local"
                  THEN {initInputs(seed) : seed \in InitInputs} ELSE {<<>>}
    /\ outputs = <<>>
    /\ script = "null"
    /\ awaitingInputKeys = <<>>
    /\ runPromise = "null"
    /\ runError = "none"
    /\ pcRun = "idle"
    /\ request = "none"
    /\ inputRequest = NoRequest
    /\ scriptError = "none"
    /\ errorKey = "none"
    /\ steps = 0
    /\ runs = 0
    /\ submits = 0
    /\ handlers = <<>>
    /\ pendingInputs = <<>>
    /\ failures = [unhandled |-> 0, error |-> 0]

\* the remote service, the tracking loop and the engine-driven run
Service ==
    \/ RemoteProcessing
    \/ RemoteAwaitingInput
    \/ RemoteCreateOutput
    \/ RemoteSuccess
    \/ RemoteFail
    \/ RemoteRestart

CloudDriver ==
    \/ Start
    \/ TrackExisting
    \/ Track
    \/ TrackPoll
    \/ TrackPollFails
    \/ ProcessJobEvent
    \/ ProcessJobEventFails
    \/ TrackAfterBatch

LocalDriver ==
    \/ Run
    \/ InitScript
    \/ RunSetupFails
    \/ Initialize
    \/ Tick
    \/ SendOutputData
    \/ RequestInputData
    \/ InputTimeout
    \/ FlowFail
    \/ ScriptSuccess
    \/ ScriptFail
    \/ RunFinish
    \/ LocalSubmitInput

Driver == Service \/ CloudDriver \/ LocalDriver

\* the job as driven by its event source, with no caller waiting on it
NextJob == Driver
SpecJob == Init /\ [][NextJob]_vars

\* a remote job whose log also holds the events the driver does not handle
NextEvents == Service \/ RemoteTds \/ CloudDriver
SpecEvents == Init /\ [][NextEvents]_vars

\* callers wait for outputs while the job runs
NextOutputs == Driver \/ WaitForOutputs
SpecOutputs == Init /\ [][NextOutputs]_vars

\* callers wait for completion while the job runs
NextCompletion == Driver \/ WaitForCompletion

\* start, trackExisting and the jobId getter called at any time
NextStart == Service \/ CloudDriver \/ StartStarted \/ TrackExistingStarted \/ GetJobId
SpecStart == Init /\ [][NextStart]_vars
SpecCompletion == Init /\ [][NextCompletion]_vars

\* callers register handlers, and unsubscribe them, while the job runs
Registration ==
    \/ OnAwaitingInput
    \/ OnOutput
    \/ OnAnyOutput
    \/ OnStateChanged
    \/ OnSuccess
    \/ OnFail

\* a job that runs with no transport or setup failure: the remote script, the
\* tracking loop of a created job, the engine-driven run
RemoteScript ==
    \/ RemoteAwaitingInput
    \/ RemoteCreateOutput
    \/ RemoteSuccess
    \/ RemoteFail

Poller ==
    \/ Start
    \/ TrackPoll
    \/ ProcessJobEvent
    \/ TrackAfterBatch

Engine ==
    \/ Run
    \/ InitScript
    \/ Initialize
    \/ Tick
    \/ SendOutputData
    \/ RequestInputData
    \/ InputTimeout
    \/ FlowFail
    \/ ScriptSuccess
    \/ ScriptFail
    \/ RunFinish

\* several callers wait for outputs of one job at the same time
NextBroadcast ==
    RemoteScript \/ Poller \/ Engine \/ WaitForOutputs \/ WaitForOutputsConcurrently
SpecBroadcast == Init /\ [][NextBroadcast]_vars

\* a created remote job tracked with no failing request: the poll, the
\* processing of a batch and the step after it are never postponed forever
NextTrack == Service \/ Poller
SpecTrack ==
    /\ Init
    /\ [][NextTrack]_vars
    /\ WF_vars(TrackPoll)
    /\ WF_vars(ProcessJobEvent)
    /\ WF_vars(TrackAfterBatch)

\* deferred inputs: one onAwaitingInput handler answers the input requests of a job
NextInputs == RemoteScript \/ Poller \/ Engine \/ OnAwaitingInput \/ HandlerSubmit
SpecInputs == Init /\ [][NextInputs]_vars

\* listeners of every kind on an engine-driven job
NextHandlers == Engine \/ Registration \/ Unsubscribe \/ HandlerSubmit
SpecHandlers == Init /\ [][NextHandlers]_vars

\* callers and an onAwaitingInput handler submit inputs, also for keys already supplied
NextSubmit ==
    \/ RemoteScript \/ Poller \/ Engine
    \/ LocalSubmitInput \/ CloudSubmitInput
    \/ OnAwaitingInput \/ HandlerSubmit
SpecSubmit == Init /\ [][NextSubmit]_vars

\* a caller submits an input to a tracked remote job; the POST is in flight
\* while the tracking loop runs, and can fail
NextPost ==
    RemoteScript \/ Poller \/ SubmitInputCall \/ PostInput \/ PostInputFails \/ SubmitInputReturns
SpecPost == Init /\ [][NextPost]_vars

\* a wildcard onAwaitingInput handler answers the input requests of a job
NextWildcard == RemoteScript \/ Poller \/ Engine \/ OnAwaitingInputWildcard \/ HandlerSubmit
SpecWildcard == Init /\ [][NextWildcard]_vars

\* a caller cancels a job while it runs
NextCancel ==
    RemoteScript \/ Poller \/ Engine \/ LocalSubmitInput \/ LocalCancel \/ CloudCancel
SpecCancel == Init /\ [][NextCancel]_vars

\* callers read outputs while the job runs
NextGet == RemoteScript \/ Poller \/ Engine \/ GetOutput \/ GetOutputFails
SpecGet == Init /\ [][NextGet]_vars

\* the input requests of an engine-driven run: inputs submitted by the caller
\* or inside the stateChanged notification, the timer, an engine that ticks on
NextRequests ==
    Engine \/ TickPending \/ LocalSubmitInput \/ OnStateChangedSubmit
SpecRequests == Init /\ [][NextRequests]_vars

\* a run observed from its creation by a stateChanged listener, with the
\* requested inputs supplied by an onAwaitingInput handler
NextSequence == Engine \/ OnStateChangedAtCreation \/ OnAwaitingInputAtCreation \/ HandlerSubmit
SpecSequence == Init /\ [][NextSequence]_vars

Next ==
    \/ Driver
    \/ WaitForOutputs
    \/ WaitForOutputsConcurrently
    \/ WaitForCompletion
    \/ CloudSubmitInput
    \/ Registration
    \/ Unsubscribe
    \/ HandlerSubmit
    \/ OnStateChangedAtCreation
    \/ OnAwaitingInputAtCreation
    \/ GetOutput
    \/ GetOutputFails
    \/ TickPending
    \/ OnStateChangedSubmit
    \/ RemoteTds
    \/ OnAwaitingInputWildcard
    \/ LocalCancel
    \/ CloudCancel
    \/ SubmitInputCall
    \/ PostInput
    \/ PostInputFails
    \/ SubmitInputReturns
    \/ StartStarted
    \/ TrackExistingStarted
    \/ GetJobId
Spec == Init /\ [][Next]_vars

\* ------------------------------------------------------- properties
HasEmitted(seq, ev) == \E j \in DOMAIN seq : seq[j].ev = ev

\* no further notification can be published: the loop or the run ended with an
\* error, and track() / run() are no-ops while the rejected promise is kept
JobOver == published # {} /\ (trackPromise = "rejected" \/ runPromise = "rejected")

\* C1: once the job has reached success or fail and has stopped, every
\* waitForOutputs call, made before or after the terminal notification, has had
\* exactly one outcome and none of its three listeners is still registered.
C1_EveryCallSettles ==
    JobOver => \A i \in DOMAIN waiters :
                  /\ waiters[i].settled = 1
                  /\ waiters[i].subs = {}

\* C2: a waitForOutputs call whose keys are all cached at the call is resolved by
\* the call itself, in every job state, and keeps no listener.
C2_ResolvesAtCall ==
    [][\A i \in DOMAIN waiters' :
          (i \notin DOMAIN waiters /\ waiters'[i].cachedAtCall)
             => /\ waiters'[i].status = "resolved"
                /\ waiters'[i].subs = {}
                /\ emitted' = <<>>]_vars

C2_Witness ==
    \E i \in DOMAIN waiters :
        /\ waiters[i].cachedAtCall
        /\ waiters[i].lateCall
        /\ waiters[i].status = "resolved"
        /\ state \in Terminal

\* C3: a waitForOutputs call pending when success is published rejects with
\* JobSuccessMissingOutputs, and with JobFailMissingOutputs when fail is
\* published; details.keys is the requested key list.
C3_RejectsOnTerminal ==
    [][\A i \in DOMAIN waiters :
          Pending(waiters[i]) =>
             /\ HasEmitted(emitted', "success") =>
                   /\ waiters'[i].status = "rejected"
                   /\ waiters'[i].name = "JobSuccessMissingOutputs"
                   /\ waiters'[i].details = waiters[i].keys
             /\ HasEmitted(emitted', "fail") =>
                   /\ waiters'[i].status = "rejected"
                   /\ waiters'[i].name = "JobFailMissingOutputs"
                   /\ waiters'[i].details = waiters[i].keys]_vars

C3_Witness ==
    \E i \in DOMAIN waiters :
        /\ waiters[i].status = "rejected"
        /\ waiters[i].name = "JobSuccessMissingOutputs"
        /\ Len(waiters[i].keys) = 2
        /\ waiters[i].details = waiters[i].keys
        /\ HasEmitted(emitted, "success")

\* C4: a pending call resolves exactly at the first output notification after
\* which all its keys are cached; the resolved array has one value per requested
\* position, the cached data of that key; a call stays pending only while a key
\* is missing.
C4_ResolvesWithCachedData ==
    [][\A i \in DOMAIN waiters' :
          LET w == waiters'[i]
              before == IF i \in DOMAIN waiters THEN waiters[i].status ELSE "none"
          IN /\ (before # "resolved" /\ w.status = "resolved") =>
                   /\ Len(w.values) = Len(w.keys)
                   /\ \A p \in DOMAIN w.keys :
                         /\ CurCache'[w.keys[p]] # NoData
                         /\ w.values[p] = CurCache'[w.keys[p]]
             /\ (before = "pending" /\ w.status = "resolved") =>
                   HasEmitted(emitted', "output")
             /\ Pending(w) => \E p \in DOMAIN w.keys : CurCache'[w.keys[p]] = NoData]_vars

C4_Witness ==
    \E i \in DOMAIN waiters :
        /\ ~waiters[i].cachedAtCall
        /\ waiters[i].status = "resolved"
        /\ Len(waiters[i].keys) = 2
        /\ waiters[i].keys[1] # waiters[i].keys[2]
        /\ waiters[i].values[1] # waiters[i].values[2]
        /\ HasEmitted(emitted, "output")

\* C5: waitForCompletion resolves only after the state has reached success and
\* never once fail was published; it rejects only after the state has reached
\* fail and never once success was published; in the cloud driver the rejection
\* is named after the error code of the failed job.
C5_CompletionFollowsState ==
    \A i \in DOMAIN wfc :
        /\ wfc[i].status = "resolved" =>
              /\ "success" \in wfc[i].reachedAt
              /\ "fail" \notin wfc[i].pubAt
        /\ wfc[i].status = "rejected" =>
              /\ "fail" \in wfc[i].reachedAt
              /\ "success" \notin wfc[i].pubAt
              /\ driver = "cloud" => wfc[i].name = error

\* C6: once getState() is success or fail, no step changes the state or
\* publishes a stateChanged notification.
C6_TerminalIsFinal ==
    [][(state \in Terminal) =>
          (state' = state /\ ~HasEmitted(emitted', "stateChanged"))]_vars

\* C7: for a caller, and for a listener inside any handler, getErrorInfo() is
\* non-null if and only if getState() is fail.
C7_ErrorIffFail ==
    /\ (error # "null") <=> (state = "fail")
    /\ \A j \in DOMAIN emitted : (emitted[j].err # "null") <=> (emitted[j].st = "fail")

\* C8: when an output notification for key k is delivered, the output cache
\* already holds an entry for k.
C8_OutputCachedBeforeNotified ==
    \A j \in DOMAIN emitted :
        emitted[j].ev = "output" => emitted[j].key \in emitted[j].has

C8_Witness ==
    \E j \in DOMAIN emitted :
        /\ emitted[j].ev = "output"
        /\ emitted[j].key = "b"
        /\ emitted[j].has = {"b"}
        /\ CurCache["b"] # NoData

\* C9: the awaiting-input key is null in every state whose job state is not
\* awaitingInput.
C9_AwaitingKeyOnlyWhileAwaiting ==
    state # "awaitingInput" => AwaitingKey = "null"

\* C10: every change of getState() comes with exactly one stateChanged
\* notification carrying the new state and the state held before, published
\* when getState() already returns the new state.
C10_ChangeIsNotified ==
    [][state' # state =>
          /\ Cardinality({j \in DOMAIN emitted' : emitted'[j].ev = "stateChanged"}) = 1
          /\ \A j \in DOMAIN emitted' :
                emitted'[j].ev = "stateChanged" =>
                   /\ emitted'[j].newState = state'
                   /\ emitted'[j].prevState = state
                   /\ emitted'[j].st = state']_vars

\* the keys of the awaitingInput notifications a step published, in order
Requested(ems) ==
    LET sel == SelectSeq(ems, LAMBDA e : e.ev = "awaitingInput")
    IN [j \in DOMAIN sel |-> sel[j].key]

\* the inputs submitted so far, as stored by the driver's input store
InputStore == IF driver = "local" THEN inputs ELSE remoteInputs

PendingOf(i) == Len(SelectSeq(pendingInputs, LAMBDA p : p.h = i))

\* C11: a handler registered with onAwaitingInput(k, fn) for a concrete key k is
\* invoked, with the requested key, for exactly the awaitingInput notifications
\* whose key is k; when fn returns a value, submitInput(k, value) is called once
\* per invocation and stores that value under k; when fn returns undefined, no
\* input is submitted.
C11_HandlerAnswersItsKey ==
    [][\A i \in DOMAIN handlers :
          LET h == handlers[i]
              h2 == handlers'[i]
          IN (h.event = "awaitingInput" /\ h.key # "*" /\ h.active) =>
                /\ NewCalls(handlers, handlers', i)
                      = SelectSeq(Requested(emitted'), LAMBDA r : r = h.key)
                /\ h2.submitted + PendingOf(i)'
                      = IF h.fn = "returns" /\ h.ret # NoData THEN Len(h2.calls) ELSE 0
                /\ h2.submitted # h.submitted =>
                      /\ h2.submitted = h.submitted + 1
                      /\ InputStore' = Append(InputStore, [key |-> h.key, data |-> h.ret])]_vars

C11_Witness ==
    \E i \in DOMAIN handlers :
        /\ driver = "cloud"
        /\ handlers[i].key = "a"
        /\ handlers[i].ret = 2
        /\ handlers[i].calls = <<"a">>
        /\ handlers[i].submitted = 1
        /\ FindInput(remoteInputs, "a") = 2
        /\ \E j \in DOMAIN processed :
              remoteLog[processed[j]] = Event(processed[j], "awaitingInput", "b")

\* C12: a handler registered with onAwaitingInput('*', fn) is invoked once for
\* every awaitingInput notification, with the requested key, in publication
\* order; the inputs it submits under the derived keys are stored with their
\* exact values.
C12_WildcardSeesEveryRequest ==
    [][\A i \in DOMAIN handlers :
          LET h == handlers[i]
              h2 == handlers'[i]
          IN (h.event = "awaitingInput" /\ h.key = "*" /\ h.active) =>
                /\ NewCalls(handlers, handlers', i) = Requested(emitted')
                /\ h2.submitted # h.submitted =>
                      \E n \in DOMAIN h.calls :
                          InputStore' = Append(InputStore,
                                               [key |-> DerivedKey[h.calls[n]],
                                                data |-> DerivedData[h.calls[n]]])
                /\ \A k \in Keys :
                      FindInput(InputStore', DerivedKey[k]) \in {NoData, DerivedData[k]}]_vars

C12_Witness ==
    \E i \in DOMAIN handlers :
        /\ handlers[i].key = "*"
        /\ handlers[i].calls = <<"a", "b">>
        /\ FindInput(InputStore, "selectedA") = 1
        /\ FindInput(InputStore, "selectedB") = 2

RECURSIVE Expected(_, _)
\* the arguments fn of registration h is to be invoked with for the notifications
\* of one step
Expected(h, ems) ==
    IF ems = <<>> THEN <<>>
    ELSE (IF fnArgument(h, Head(ems)) # "skip" THEN <<fnArgument(h, Head(ems))>> ELSE <<>>)
         \o Expected(h, Tail(ems))

\* C13: a handler that throws or rejects does not fail the code that published
\* the notification; every failure is redirected to the error channel of the
\* bus; the other listeners of the notification are still invoked and the run
\* is not settled by the failure.
C13_FailureGoesToErrorChannel ==
    [][LET n == Rejections(handlers, handlers', 1)
       IN n > 0 =>
             /\ failures'.error = failures.error + n
             /\ failures'.unhandled = failures.unhandled
             /\ \A j \in DOMAIN handlers :
                   handlers[j].active =>
                      NewCalls(handlers, handlers', j) = Expected(handlers[j], emitted')
             /\ runPromise' = runPromise]_vars

\* C13 (amended): a handler that throws or rejects does not fail the code that
\* published the notification; the failure is not published on the error
\* channel but is left as an unhandled promise rejection, one per failed
\* invocation; the other listeners of the notification are still invoked and
\* the run is not settled by the failure.
C13_FailureIsUnhandledRejection ==
    [][LET n == Rejections(handlers, handlers', 1)
       IN /\ failures'.error = failures.error
          /\ failures'.unhandled = failures.unhandled + n
          /\ n > 0 =>
                /\ \A j \in DOMAIN handlers :
                      handlers[j].active =>
                         NewCalls(handlers, handlers', j) = Expected(handlers[j], emitted')
                /\ runPromise' = runPromise]_vars

C13_Witness ==
    /\ failures.unhandled = 2
    /\ Len(handlers) = 2
    /\ handlers[1].fn = "throws"
    /\ handlers[2].fn = "returns"
    /\ handlers[1].event = "stateChanged"
    /\ Len(handlers[1].calls) = 2
    /\ handlers[2].calls = handlers[1].calls
    /\ state = "success"
    /\ runPromise = "null"
    /\ pcRun = "idle"

\* C14: each on... method adds exactly one listener; once the closure it
\* returned has been called, the handler is not invoked for any notification
\* published afterwards, while every other listener stays registered and is
\* still invoked.
C14_UnsubscribeRemovesOneListener ==
    [][/\ Len(handlers') # Len(handlers) =>
             /\ Len(handlers') = Len(handlers) + 1
             /\ handlers'[Len(handlers')].active
             /\ handlers'[Len(handlers')].calls = <<>>
             /\ \A j \in DOMAIN handlers : handlers'[j] = handlers[j]
       /\ \A i \in DOMAIN handlers :
             /\ ~handlers[i].active =>
                   /\ ~handlers'[i].active
                   /\ handlers'[i].calls = handlers[i].calls
             /\ (handlers[i].active /\ ~handlers'[i].active) =>
                   /\ \A j \in DOMAIN handlers \ {i} : handlers'[j] = handlers[j]
                   /\ waiters' = waiters
             /\ (handlers[i].active /\ handlers'[i].active) =>
                   NewCalls(handlers, handlers', i) = Expected(handlers[i], emitted')]_vars

C14_Witness ==
    /\ Len(handlers) = 2
    /\ handlers[1].event = "output"
    /\ ~handlers[1].active
    /\ handlers[2].active
    /\ handlers[1].key = "*"
    /\ handlers[2].key = "*"
    /\ Len(handlers[1].calls) = 1
    /\ Len(handlers[2].calls) = 2

AllCached(w, cache) == \A p \in DOMAIN w.keys : cache[w.keys[p]] # NoData

\* C15: every pending waitForOutputs call observes every notification, whatever
\* the other calls do: at an output notification each pending call whose keys
\* are all cached resolves, at success or fail each pending call rejects, and
\* the listeners of a call are removed only when that call itself settles.
C15_BusIsBroadcast ==
    [][\A i \in DOMAIN waiters :
          LET w == waiters[i]
              w2 == waiters'[i]
          IN /\ (Pending(w) /\ HasEmitted(emitted', "output") /\ AllCached(w, CurCache')) =>
                   (w2.status = "resolved" /\ w2.subs = {})
             /\ (Pending(w) /\ HasEmitted(emitted', "success")) =>
                   (w2.status = "rejected" /\ w2.subs = {})
             /\ (Pending(w) /\ HasEmitted(emitted', "fail")) =>
                   (w2.status = "rejected" /\ w2.subs = {})
             /\ w2.subs # w.subs => (Pending(w) /\ ~Pending(w2))
             /\ Pending(w2) => w2.subs = {"output", "success", "fail"}]_vars

C15_Witness ==
    /\ Len(waiters) = 2
    /\ waiters[1].keys = <<"a">>
    /\ waiters[2].keys = <<"a", "b">>
    /\ waiters[1].status = "resolved"
    /\ ~waiters[1].cachedAtCall
    /\ waiters[2].status = "rejected"
    /\ waiters[2].name = "JobSuccessMissingOutputs"

\* the notifications _processJobEvent publishes for one remote event
EffectOf(e, ems) ==
    CASE e.name = "awaitingInput" ->
            /\ Len(ems) = 2
            /\ ems[1].ev = "stateChanged" /\ ems[1].newState = "awaitingInput"
            /\ ems[2].ev = "awaitingInput" /\ ems[2].key = e.key
      [] e.name = "createOutput" ->
            \A j \in DOMAIN ems : ems[j].ev = "output" /\ ems[j].key = e.key
      [] e.name = "processing" ->
            Len(ems) = 1 /\ ems[1].ev = "stateChanged" /\ ems[1].newState = "processing"
      [] e.name \in Terminal ->
            /\ Len(ems) = 2
            /\ ems[1].ev = "stateChanged" /\ ems[1].newState = e.name
            /\ ems[2].ev = e.name
      [] OTHER -> ems = <<>>

\* C16: the cloud driver processes the remote events in ascending offset
\* order, within a batch and across polls: each processed event lies after
\* every event processed before it, and the notifications of a step are those
\* of that one event.
C16_EventsInOffsetOrder ==
    [][processed' # processed =>
          /\ Len(processed') = Len(processed) + 1
          /\ SubSeq(processed', 1, Len(processed)) = processed
          /\ LET id == processed'[Len(processed')]
             IN /\ \A j \in DOMAIN processed : processed[j] < id
                /\ trk' # "none" => EffectOf(remoteLog[id], emitted')]_vars

C16_Witness ==
    /\ processed = <<1, 2, 3>>
    /\ remoteLog[1].name = "createOutput"
    /\ remoteLog[2].name = "awaitingInput"
    /\ remoteLog[3].name = "success"
    /\ jobEventOffset = 3
    /\ trk = "batch"
    /\ HasEmitted(emitted, "success")

\* C17: the offset cursor never decreases; a poll advances it by the number of
\* events received, so that it counts the events consumed so far; no remote
\* event is handed to _processJobEvent twice.
C17_CursorCountsConsumedEvents ==
    [][/\ jobEventOffset' >= jobEventOffset
       /\ (trk = "fetch" /\ trk' = "batch") =>
             /\ jobEventOffset' = jobEventOffset + Len(batch')
             /\ jobEventOffset' = Len(remoteLog)
       /\ trk' # "none" => jobEventOffset' = Len(processed') + Len(batch')
       /\ \A i, j \in DOMAIN processed' : i # j => processed'[i] # processed'[j]]_vars

C17_Witness ==
    /\ processed = <<1, 2>>
    /\ jobEventOffset = 2
    /\ Len(remoteLog) = 3
    /\ remoteLog[1] = Event(1, "createOutput", "a")
    /\ remoteLog[3] = Event(3, "createOutput", "a")
    /\ trk = "fetch"

\* C18: at most one tracking loop is active at any time, and a track() call
\* made while _trackPromise is set starts no loop and changes nothing.
C18_TrackIsSingleFlight ==
    [][/\ loops' <= 1
       /\ loops' > loops => trackPromise = "null"
       /\ (Track /\ trackPromise # "null") =>
             UNCHANGED <<driver, raised, ended, posting, got, jobFrame, cloudVars, remoteVars, localVars, handlerVars>>]_vars

C18_Witness ==
    /\ loops = 1
    /\ trk = "fetch"
    /\ trackPromise = "pending"
    /\ "success" \in published
    /\ jobEventOffset < Len(remoteLog)

LogHasTerminal == \E i \in DOMAIN remoteLog : remoteLog[i].name \in Terminal

\* C19: once the remote event log contains a success or a fail event, and no
\* remote request fails, the tracking loop eventually stops polling and the
\* promise waitForCompletion awaits settles.
C19_TrackingEnds ==
    [](LogHasTerminal /\ trk # "none" => <>(trk = "none" /\ trackPromise # "pending"))

\* C20: in the local driver, when the timer of a pending input request for key
\* k fires, the request rejects with InputTimeout and details.key = k; the
\* job then ends in state fail, and waitForCompletion rejects with that error.
C20_InputTimeoutFailsTheJob ==
    [][/\ (pcRun = "awaitingInput" /\ pcRun' = "failing") =>
             /\ scriptError' = "InputTimeout"
             /\ errorKey' = request
             /\ request \in Keys
             /\ FindInput(inputs, request) = NoData
       /\ (scriptError = "InputTimeout" /\ pcRun = "failing" /\ pcRun' # pcRun) =>
             /\ state' = "fail"
             /\ HasEmitted(emitted', "fail")
       /\ (scriptError = "InputTimeout" /\ pcRun = "failed" /\ pcRun' # pcRun) =>
             /\ state' = "fail"
             /\ runPromise' = "rejected"
             /\ \A i \in DOMAIN wfc :
                   wfc[i].status = "pending" =>
                      /\ wfc'[i].status = "rejected"
                      /\ wfc'[i].name = "InputTimeout"
                      /\ wfc'[i].key = errorKey
       /\ (scriptError = "InputTimeout" /\ runPromise = "rejected"
             /\ Len(wfc') > Len(wfc)) =>
             /\ wfc'[Len(wfc')].status = "rejected"
             /\ wfc'[Len(wfc')].name = "InputTimeout"
             /\ wfc'[Len(wfc')].key = errorKey
             /\ errorKey \in Keys]_vars

C20_Witness ==
    \E i \in DOMAIN wfc :
        /\ driver = "local"
        /\ wfc[i].status = "rejected"
        /\ wfc[i].name = "InputTimeout"
        /\ wfc[i].key = "b"
        /\ wfc[i].stAt = "fail"
        /\ state = "fail"
        /\ FindInput(inputs, "b") = NoData

\* the job's one run has succeeded after exactly one input request was notified,
\* and the handler answered it
OneInputThenSuccess(j) ==
    /\ runs = 1
    /\ inputRequest.n = 1
    /\ handlers[j].event = "awaitingInput"
    /\ Len(handlers[j].calls) = 1
    /\ handlers[j].submitted = 1
    /\ state = "success"

OrDefault(field, default) == IF field = "absent" THEN default ELSE field

\* C22: on a remote fail event the cloud driver stores a JobError built from the
\* remote error payload, with category server, code UnknownError and message
\* Unknown error for the fields the payload lacks; the fail notification and
\* the waitForCompletion rejection carry an exception named after that code
\* whose details hold the category and the fields of the error's details, so
\* that a remote InputTimeout for key k gives name InputTimeout, details.key k.
C22_FailCarriesJobError ==
    [][/\ (driver = "cloud" /\ HasEmitted(emitted', "fail")) =>
             /\ error' = OrDefault(remoteError.code, "UnknownError")
             /\ errorDetails'.category = OrDefault(remoteError.category, "server")
             /\ errorDetails'.message = OrDefault(remoteError.message, "Unknown error")
             /\ errorDetails'.key = OrDefault(remoteError.key, "none")
             /\ \A j \in DOMAIN emitted' :
                   emitted'[j].ev = "fail" =>
                      /\ emitted'[j].key = error'
                      /\ emitted'[j].category = errorDetails'.category
                      /\ emitted'[j].detailsKey = errorDetails'.key
                      /\ remoteError.code = "InputTimeout" =>
                            /\ emitted'[j].key = "InputTimeout"
                            /\ emitted'[j].detailsKey = remoteError.key
                            /\ emitted'[j].detailsKey \in Keys
       /\ \A i \in DOMAIN wfc' :
             (/\ driver = "cloud"
              /\ wfc'[i].status = "rejected"
              /\ wfc'[i].name # "RequestFailed"
              /\ (i \in DOMAIN wfc => wfc[i].status = "pending")) =>
                 /\ "fail" \in published
                 /\ wfc'[i].name = error
                 /\ wfc'[i].category = errorDetails.category
                 /\ wfc'[i].key = errorDetails.key]_vars

C22_Witness ==
    \E i \in DOMAIN wfc :
        /\ driver = "cloud"
        /\ wfc[i].status = "rejected"
        /\ wfc[i].name = "InputTimeout"
        /\ wfc[i].category = "client"
        /\ wfc[i].key = "b"
        /\ error = "InputTimeout"
        /\ errorDetails.key = "b"
        /\ "fail" \in published

\* the submitInput calls made so far, by callers and by handlers
RECURSIVE SubmittedBy(_)
SubmittedBy(hs) == IF hs = <<>> THEN 0 ELSE Head(hs).submitted + SubmittedBy(Tail(hs))

Submitted == submits + SubmittedBy(handlers)

Supplied(store, k) == Len(SelectSeq(store, LAMBDA in : in.key = k))

\* C23: submitInput(k, data) is accepted whether or not an input for k was
\* supplied before, at creation or by an earlier call: every call appends the
\* input to the driver's input store and records it in the input cache, and in
\* the local driver it publishes input(k, data).
C23_DuplicateInputAccepted ==
    [][Submitted' # Submitted =>
          /\ Submitted' = Submitted + 1
          /\ \E k \in InputKeys, d \in Data :
                /\ InputStore' = Append(InputStore, [key |-> k, data |-> d])
                /\ driver = "cloud" => inputsMap'[k] = d
                /\ driver = "local" =>
                      /\ \E j \in DOMAIN emitted' :
                            emitted'[j].ev = "input" /\ emitted'[j].key = k
                      /\ Supplied(inputs', k) = Supplied(inputs, k) + 1]_vars

C23_Witness ==
    /\ driver = "local"
    /\ Len(inputs) = 2
    /\ Supplied(inputs, "a") = 2
    /\ inputs[1].data # inputs[2].data
    /\ submits = 1
    /\ SubmittedBy(handlers) = 1
    /\ HasEmitted(emitted, "input")

\* C24: getOutput(k) returns the cached data when k is in the output cache; in
\* the cloud driver, when k is not cached, it returns the data of the remote
\* output when the service has one and undefined when the lookup answers 404;
\* in the local driver it returns undefined when k was not emitted; it is
\* never rejected because the output is absent.
C24_GetOutputFallsThrough ==
    [][got' # got =>
          LET k == got'.key
          IN /\ k \in Keys
             /\ CurCache[k] # NoData =>
                   (got'.status = "resolved" /\ got'.data = CurCache[k])
             /\ (CurCache[k] = NoData /\ driver = "local") =>
                   (got'.status = "resolved" /\ got'.data = NoData)
             /\ (CurCache[k] = NoData /\ driver = "cloud") =>
                   \/ got'.status = "resolved" /\ got'.data = remoteOutputs[k]
                   \/ got'.status = "rejected" /\ got'.name = "RequestFailed"]_vars

C24_Witness ==
    /\ driver = "cloud"
    /\ got.status = "resolved"
    /\ got.key = "b"
    /\ got.data = 2
    /\ outputsMap["b"] = NoData
    /\ remoteOutputs["b"] = 2
    /\ remoteOutputs["a"] = NoData

\* the data of the most recent emission for a key among the emitted outputs
Newest(outs, key) ==
    LET idx == {i \in DOMAIN outs : outs[i].key = key}
    IN outs[CHOOSE i \in idx : \A j \in idx : j <= i].data

\* C25: when an output is emitted more than once with the same key, the cache
\* keeps one value per key, the newest: getOutput(k) and waitForOutputs(k)
\* return the data of the most recent emission for k, in the local driver as
\* in the cloud driver, whose cache holds the data last looked up for k.
C25_NewestOutputWins ==
    \A k \in Keys :
        /\ (driver = "local" /\ Supplied(outputs, k) > 0) =>
              /\ getOutput(driver, outputs, outputsMap, remoteOutputs, k) = Newest(outputs, k)
              /\ checkOutputs(<<k>>, CurCache).values = <<Newest(outputs, k)>>
        /\ (driver = "cloud" /\ outputsMap[k] # NoData) =>
              /\ getOutput(driver, outputs, outputsMap, remoteOutputs, k) = remoteOutputs[k]
              /\ checkOutputs(<<k>>, CurCache).values = <<remoteOutputs[k]>>


\* the data of the first input notification for key in log, NoData when none
FirstInput(log, key) ==
    LET hits == SelectSeq(log, LAMBDA e : e.ev = "input" /\ e.key = key)
    IN IF hits = <<>> THEN NoData ELSE Head(hits).data

Settled(r) == r.status \in {"resolved", "rejected"}

C27_CachedRequestHasNoEffect ==
    [][(inputRequest'.n # inputRequest.n /\ FindInput(inputs, inputRequest'.key) # NoData) =>
          /\ inputRequest'.status = "cached"
          /\ inputRequest'.data = FindInput(inputs, inputRequest'.key)
          /\ inputRequest'.subs = {}
          /\ ~inputRequest'.timer
          /\ emitted' = <<>>
          /\ UNCHANGED <<state, error, errorDetails, awaitingInputKeys, inputs, outputs, script,
                         request, pcRun, handlers, waiters, wfc, published, reached>>]_vars

\* a request served from the cache while the job is processing and nothing is awaited
C27_Witness ==
    /\ driver = "local"
    /\ inputRequest.status = "cached"
    /\ inputRequest.data # NoData
    /\ inputRequest.data = FindInput(inputs, inputRequest.key)
    /\ state = "processing"
    /\ awaitingInputKeys = <<>>
    /\ pcRun = "running"

\* a stateChanged notification with a new state other than awaitingInput is in log
LeavesAwaitingInput(log) ==
    \E j \in DOMAIN log : log[j].ev = "stateChanged" /\ log[j].newState # "awaitingInput"

\* C28: a pending local input request is rejected with AwaitingInputInterrupted
\* exactly in the steps that publish a stateChanged notification whose new state
\* is not awaitingInput; an input for the awaited key resolves it instead, and
\* the stateChanged notification of the request's own transition to
\* awaitingInput does not interrupt it.
C28_InterruptedByStateChange ==
    [][LET interrupted == /\ inputRequest' # inputRequest
                          /\ inputRequest'.status = "rejected"
                          /\ inputRequest'.name = "AwaitingInputInterrupted"
       IN /\ inputRequest.status = "pending" => (interrupted <=> LeavesAwaitingInput(emitted'))
          /\ interrupted => (inputRequest.status = "pending" /\ inputRequest'.n = inputRequest.n)
          /\ (inputRequest.status = "pending"
                /\ FirstInput(emitted', inputRequest.key) # NoData) =>
                (inputRequest'.status = "resolved" /\ inputRequest'.name = "none")
          /\ (inputRequest'.n # inputRequest.n /\ inputRequest'.status # "cached") =>
                (/\ inputRequest'.status \in {"pending", "resolved"}
                 /\ emitted'[1].ev = "stateChanged"
                 /\ emitted'[1].newState = "awaitingInput")]_vars

\* a request interrupted by the engine's transition to processing; its key is
\* still recorded as awaited
C28_Witness ==
    /\ driver = "local"
    /\ inputRequest.status = "rejected"
    /\ inputRequest.name = "AwaitingInputInterrupted"
    /\ inputRequest.subs = {}
    /\ state = "processing"
    /\ getAwaitingInputKey(awaitingInputKeys) = inputRequest.key

\* the inputs published in log, as cache entries
PublishedInputs(log) ==
    LET ins == SelectSeq(log, LAMBDA e : e.ev = "input")
    IN [i \in DOMAIN ins |-> [key |-> ins[i].key, data |-> ins[i].data]]

\* C29: a local submitInput(k, data) appends the input to the input cache and
\* then publishes input(k, data); a pending request resolves with that data
\* exactly when its key is k and stays pending for another key; this also holds
\* for an input submitted inside the stateChanged notification of the
\* request's own transition to awaitingInput, after which the script runs on
\* with the submitted data.
C29_InputResolvesMatchingRequest ==
    [][/\ \A j \in DOMAIN emitted' : emitted'[j].ev = "input" => emitted'[j].stored
       /\ inputs' = inputs \o PublishedInputs(emitted')
       /\ (inputRequest.status = "pending" /\ ~LeavesAwaitingInput(emitted')
             /\ pcRun' # "failing") =>
             /\ inputRequest'.n = inputRequest.n
             /\ inputRequest'.status = "resolved"
                   <=> FirstInput(emitted', inputRequest.key) # NoData
             /\ inputRequest'.status # "resolved" => inputRequest' = inputRequest
       /\ (inputRequest'.n # inputRequest.n /\ inputRequest'.status # "cached") =>
             /\ inputRequest'.status = "resolved"
                   <=> FirstInput(emitted', inputRequest'.key) # NoData
             /\ inputRequest'.status # "resolved" =>
                   (inputRequest'.status = "pending" /\ pcRun' = "awaitingInput")
       /\ (inputRequest' # inputRequest /\ inputRequest'.status = "resolved") =>
             /\ inputRequest'.data = FirstInput(emitted', inputRequest'.key)
             /\ pcRun' = "running"
             /\ request' = "none"
             /\ ~\E i \in DOMAIN awaitingInputKeys' :
                    awaitingInputKeys'[i] = inputRequest'.key]_vars

\* a request resolved inside its own transition to awaitingInput by the input
\* that a stateChanged handler submitted, the only input of the job
C29_Witness ==
    /\ driver = "local"
    /\ state = "awaitingInput"
    /\ pcRun = "running"
    /\ inputRequest.status = "resolved"
    /\ inputs = <<[key |-> inputRequest.key, data |-> inputRequest.data]>>
    /\ \E i \in DOMAIN handlers :
          /\ handlers[i].fn = "submitsNow"
          /\ handlers[i].submitted = 1
          /\ handlers[i].ret = inputRequest.data
    /\ awaitingInputKeys = <<>>

\* C30: when awaitingInput(k) is delivered, in either driver, the state is
\* awaitingInput and the recorded awaiting key is k; a stateChanged listener that
\* observes the transition to awaitingInput already observes the awaiting key of
\* the awaitingInput notification that follows.
C30_AwaitingKeyObserved ==
    \A j \in DOMAIN emitted :
       /\ emitted[j].ev = "awaitingInput" =>
             (emitted[j].st = "awaitingInput" /\ emitted[j].aik = emitted[j].key)
       /\ (emitted[j].ev = "stateChanged" /\ emitted[j].newState = "awaitingInput") =>
             \E i \in DOMAIN emitted :
                /\ i > j
                /\ emitted[i].ev = "awaitingInput"
                /\ emitted[i].key = emitted[j].aik

\* the event names _processJobEvent has no case body for
Unhandled == {"restart", "tdsStart", "tdsFinish"}

\* C31: when the cloud driver processes a restart, tdsStart or tdsFinish event,
\* the state, the last error, the awaiting-input key, the input and output
\* caches and the pending calls stay as they are and nothing is published; the
\* cursor, advanced by the poll that fetched the event, is past the event.
C31_UnhandledEventsChangeNothing ==
    [][(processed' # processed /\ nextEvent(batch).name \in Unhandled) =>
          /\ emitted' = <<>>
          /\ UNCHANGED <<state, error, errorDetails, awaitingInputKey, inputsMap, outputsMap,
                         waiters, wfc, published, reached, handlers, trackPromise,
                         jobEventOffset>>
          /\ jobEventOffset >= nextEvent(batch).id
          /\ batch' = Tail(batch)]_vars

\* a tdsStart or tdsFinish event was the last one processed, after an input
\* request and an output
C31_Witness ==
    /\ processed # <<>>
    /\ batch = <<>>
    /\ remoteLog[processed[Len(processed)]].name \in {"tdsStart", "tdsFinish"}
    /\ jobEventOffset = Len(remoteLog)
    /\ state = "awaitingInput"
    /\ awaitingInputKey = "a"
    /\ outputsMap["b"] # NoData

\* C32: when the cloud driver processes a createOutput(k) event and the remote
\* lookup answers 404, no error is raised, the tracking loop goes on, the output
\* cache is unchanged and nothing is published; when the lookup returns data,
\* the data is cached under k and exactly one output notification is published.
C32_MissingOutputIsSkipped ==
    [][(processed' # processed /\ nextEvent(batch).name = "createOutput") =>
          LET k == nextEvent(batch).key
              data == remoteOutputs[k]
          IN /\ trk' = "batch"
             /\ batch' = Tail(batch)
             /\ UNCHANGED <<trackPromise, trackError, loops, state, error, wfc>>
             /\ IF data = NoData
                THEN /\ emitted' = <<>>
                     /\ UNCHANGED <<outputsMap, waiters, handlers>>
                ELSE /\ outputsMap' = [outputsMap EXCEPT ![k] = data]
                     /\ Len(emitted') = 1
                     /\ emitted'[1].ev = "output"
                     /\ emitted'[1].key = k
                     /\ k \in emitted'[1].has]_vars

\* the first event processed was a createOutput whose lookup answered 404;
\* the loop went on to the success event and returned
C32_Witness ==
    /\ Len(processed) >= 2
    /\ remoteLog[processed[1]].name = "createOutput"
    /\ remoteOutputs[remoteLog[processed[1]].key] = NoData
    /\ outputsMap[remoteLog[processed[1]].key] = NoData
    /\ state = "success"
    /\ trackPromise = "null"
    /\ trackError = "none"
    /\ "success" \in published

\* C33: cloud submitInput(k, data) touches the input cache only when the POST
\* has succeeded: while the request is in flight and when it fails the cache
\* is as before, and a failing request changes neither the state nor the
\* cursor; when the call resolves the cache holds data under k and the service
\* has stored the input, whatever the tracking loop did in between.
C33_InputCachedAfterPost ==
    [][/\ (inputsMap' # inputsMap /\ jobId # "null") =>
             /\ posting.status = "accepted"
             /\ posting'.status = "resolved"
       /\ (posting'.status = "rejected" /\ posting.status # "rejected") =>
             /\ posting.status = "sending"
             /\ UNCHANGED <<inputsMap, state, error, jobEventOffset, remoteInputs, remoteLog,
                            trackPromise>>
       /\ (posting'.status = "resolved" /\ posting.status # "resolved") =>
             /\ inputsMap'[posting'.key] = posting'.data
             /\ \A k \in InputKeys \ {posting'.key} : inputsMap'[k] = inputsMap[k]
             /\ \E i \in DOMAIN remoteInputs :
                   remoteInputs[i] = [key |-> posting'.key, data |-> posting'.data]
             /\ UNCHANGED <<state, error, jobEventOffset>>]_vars

\* an input for the awaited key was posted, the tracking loop processed the
\* service's reaction while the response was in flight, and the call resolved
C33_Witness ==
    /\ posting.status = "resolved"
    /\ inputsMap[posting.key] = posting.data
    /\ remoteAwaitingKey = posting.key
    /\ state = "processing"
    /\ Len(processed) >= 2
    /\ remoteLog[processed[Len(processed)]].name = "processing"

\* the errors of the steps of _run that precede the script
SetupErrors == {"BadScript", "ConnectFailed"}

\* C34: when a step of a local run before the script fails, the job takes the
\* fail path of a script failure: the state is fail, a fail notification has
\* been published, no waitForOutputs call is left pending and the
\* waitForCompletion calls made before the failure have rejected.
C34_SetupFailureFailsTheJob ==
    (driver = "local" /\ runPromise = "rejected" /\ runError \in SetupErrors) =>
        /\ state = "fail"
        /\ "fail" \in published
        /\ \A i \in DOMAIN waiters : ~Pending(waiters[i])
        /\ \A i \in DOMAIN wfc : wfc[i].status = "rejected"

\* C37: with a wildcard registration onAwaitingInput('*', fn) the inputs
\* submitted are those fn submits itself: whatever fn returns, no input is
\* submitted under the key '*'.
C37_NoInputUnderWildcard ==
    /\ \A i \in DOMAIN InputStore : InputStore[i].key # "*"
    /\ inputsMap["*"] = NoData
    /\ \A i \in DOMAIN pendingInputs :
          handlers[pendingInputs[i].h].key = "*" => handlers[pendingInputs[i].h].fn = "submits"

\* C36: a cancel() call changes no local job state: the state, the last error,
\* the caches, the awaiting-input key, the pending calls and a pending local
\* input request are as before and nothing is published; the local driver
\* pauses the script only when one is loaded, and the state becomes fail only
\* in a step that publishes stateChanged(fail).
C36_CancelChangesNoJobState ==
    [][/\ ((script' = "paused" /\ script # "paused") \/ remoteCancels' # remoteCancels) =>
             /\ emitted' = <<>>
             /\ UNCHANGED <<state, error, errorDetails, inputs, outputs, inputsMap,
                            outputsMap, awaitingInputKey, awaitingInputKeys, request,
                            inputRequest, pcRun, runPromise, trackPromise, waiters, wfc,
                            published, reached, handlers, jobEventOffset>>
       /\ (script' = "paused" /\ script # "paused") => script = "loaded"
       /\ (state' = "fail" /\ state # "fail") =>
             \E j \in DOMAIN emitted' :
                emitted'[j].ev = "stateChanged" /\ emitted'[j].newState = "fail"]_vars

\* a local job cancelled while its input request is pending: the request is
\* still pending
C36_Witness ==
    /\ driver = "local"
    /\ script = "paused"
    /\ state = "awaitingInput"
    /\ inputRequest.status = "pending"
    /\ inputRequest.timer
    /\ pcRun = "awaitingInput"

\* the lifecycle rank of a state: created, then the running states, then the
\* terminal states
Rank(st) == IF st \in Terminal THEN 2 ELSE IF st = "created" THEN 0 ELSE 1

\* C35: trackExisting creates no remote job, sets the local state to the state
\* fetched from the service and starts the tracking loop; while the loop reads
\* the log of a job that has already ended, the local state never moves from
\* the fetched state back to an earlier lifecycle state, and when the loop ends
\* the local state is the remote state.
C35_TrackExistingFollowsRemote ==
    [][/\ (jobId = "null" /\ jobId' # "null" /\ remoteExists) =>
             /\ UNCHANGED <<remoteExists, remoteLog, remoteState>>
             /\ state' = remoteState
             /\ trackPromise' = "pending"
       /\ (jobId # "null" /\ remoteState \in Terminal /\ remoteLog # <<>>
             /\ remoteLog[Len(remoteLog)].name = remoteState) =>
             /\ Rank(state') >= Rank(state)
             /\ (trackPromise = "pending" /\ trackPromise' = "null") => state' = remoteState]_vars

\* the calls of waitForCompletion made after the first loop or run had ended
AfterEnd == {i \in DOMAIN wfc : ended.status # "none" /\ i > ended.calls}

\* an outcome that has been delivered is not changed by any later step
DeliveredStays ==
    \A i \in DOMAIN wfc : wfc[i].status # "pending" => wfc'[i] = wfc[i]

\* C38: after the loop or the run has ended, every later call of
\* waitForCompletion rejects with the error it ended with, or resolves if it
\* ended successfully, and an outcome already delivered never changes
C38_CompletionStableAfterEnd ==
    [][/\ DeliveredStays
       /\ \A i \in AfterEnd' :
              /\ ended'.status = "rejected"
                 => wfc'[i].status = "rejected" /\ wfc'[i].name = ended'.name
              /\ ended'.status = "resolved" => wfc'[i].status # "rejected"]_vars

\* C39: in the cloud driver a waitForCompletion promise resolves only after the
\* success notification and stateChanged(success) have been published, and it
\* rejects because the job failed only after the fail notification and
\* stateChanged(fail) have been published
C39_TerminalNotificationFirst ==
    driver = "cloud" =>
        \A i \in DOMAIN wfc :
            /\ wfc[i].status = "resolved" =>
                  /\ "success" \in wfc[i].pubAt
                  /\ "success" \in wfc[i].reachedAt
            /\ (wfc[i].status = "rejected" /\ wfc[i].name # "RequestFailed") =>
                  /\ "fail" \in wfc[i].pubAt
                  /\ "fail" \in wfc[i].reachedAt

\* C40: a start() or trackExisting() call on a job that has a job id throws
\* JobAlreadyStarted and changes neither the job id, the state, the caches, the
\* cursor, the tracking loop nor the remote service, and publishes nothing;
\* reading jobId while no job id is set throws InvalidStateError
C40_AlreadyStartedChangesNothing ==
    [][/\ (raised'.n > raised.n /\ jobId # "null") =>
             /\ raised'.name = "JobAlreadyStarted"
             /\ raised'.by \in {"start", "trackExisting"}
             /\ emitted' = <<>>
             /\ UNCHANGED <<jobFrame, cloudVars, remoteVars, handlerVars>>
       /\ (raised' # raised /\ raised'.n = raised.n /\ jobId = "null") =>
             /\ raised'.name = "InvalidStateError"
             /\ jobId' = "null"]_vars

\* both calls were refused on a job whose tracking loop is running
C40_Witness ==
    /\ jobId # "null"
    /\ raised.n = MaxCalls
    /\ raised.name = "JobAlreadyStarted"
    /\ trackPromise = "pending"
    /\ loops = 1

====
